---- MODULE Spec2Model ----
(***************************************************************************)
(* cachedpath: resolution of a remote identifier into a cached local file. *)
(*                                                                         *)
(* Six state machines share this module.                                   *)
(*   SpecRetry  one transport call of the HTTP client: the retry loop of   *)
(*              doRequestWithRetry, GetResource's status check and body    *)
(*              copy, and downloadFile's error wrapping.                   *)
(*   Spec       NumProcs concurrent CachedPath calls on one remote URL:    *)
(*              revision probe, file lock, freshness check, download into  *)
(*              a temporary file, rename, unlock, metadata write.          *)
(*   SpecResolve  MaxCalls CachedPath calls made one after the other on    *)
(*              local paths, URLs and archives: dispatch, the local        *)
(*              branch, whole-archive and single-entry extraction.         *)
(*   SpecUtil   the pure functions of util.go applied on their own:        *)
(*              ResourceToFilename and ParseArchivePath.                   *)
(*   SpecClient NumProcs concurrent calls with different options and the   *)
(*              one registered HTTP client they all configure.             *)
(*   SpecCall   one remote call with any MaxRetries, on any state of the   *)
(*              cache directory, while another process may hold the lock.  *)
(***************************************************************************)
EXTENDS Integers, Sequences, FiniteSets, TLC

(***************************************************************************)
(* Bounds of the model.                                                    *)
(***************************************************************************)
\* largest value of Options.MaxRetries drawn in SpecRetry (smallest is -1)
MaxRetriesBound == 3
\* largest value of Options.RetryDelay drawn in SpecRetry (smallest is 1)
MaxDelay == 2
\* number of concurrent CachedPath calls in Spec
NumProcs == 2
\* number of chunks io.Copy writes for one response body
ContentLen == 2
\* Options.MaxRetries of the calls in Spec
OptMaxRetries == 1
\* number of CachedPath calls made one after the other in SpecResolve
MaxCalls == 2

(***************************************************************************)
(* The outcome of one http.Client.Do: a response with a status (> 0), or a *)
(* transport-level error (< 0) with a nil response.  Nil is the Go zero    *)
(* value of a response and of an error.                                    *)
(***************************************************************************)
StatusOK == 200
Nil == 0
ConnRefused == -1
Timeout == -2
Statuses == {200, 204, 304, 400, 499, 500, 503}
TransportErrors == {ConnRefused, Timeout}
Outcomes == Statuses \cup TransportErrors

Is2xx(s) == s >= 200 /\ s <= 299
Is4xx(s) == s >= 400 /\ s < 500
Is5xx(s) == s >= 500 /\ s <= 599

VARIABLES
    \* ---- SpecRetry: one transport call ----
    maxRetries,   \* HTTPClient.maxRetries
    retryDelay,   \* HTTPClient.retryDelay
    attempt,      \* loop variable of doRequestWithRetry
    resp,         \* status of the last response, Nil for a nil response
    err,          \* error of the last client.Do, Nil for a nil error
    reqs,         \* history: outcome of every client.Do issued, in order
    sleeps,       \* history: argument of every time.Sleep, in order
    rpc,          \* position of the transport call
    ret,          \* what GetResource / downloadFile returned
    \* ---- Spec: concurrent CachedPath calls ----
    fs,           \* the cache directory: path -> file content
    flocks,       \* lock path -> the call holding the flock on it, 0 if none
    pc,           \* call -> position in CachedPath / handleRemoteURL
    etag,         \* call -> etag of handleRemoteURL
    tries,        \* call -> loop variable i of FileLock.Lock
    dlErr,        \* call -> error returned by the function passed to WithLock
    metaErr,      \* call -> TRUE iff meta.SaveToFile returned an error
    result,       \* call -> what CachedPath returned: [path, err]
    \* history of each call
    before,       \* call -> the calls that had returned when it started
    entry,        \* call -> content of its cache path when it got the lock
    waited,       \* call -> TRUE iff a flock attempt found the lock held
    probed,       \* call -> TRUE iff it called GetSize
    headErr,      \* call -> TRUE iff its GetETag returned an error
    fetched,      \* call -> TRUE iff it called GetResource (issued the GET)
    published,    \* call -> TRUE iff its os.Rename onto the cache path succeeded
    faulty,       \* TRUE iff some transport call or file operation has failed
    \* ---- SpecResolve: CachedPath calls one after the other ----
    disk,         \* the file system: path -> node, for the paths that exist
    registry,     \* schemes.registry: the schemes a client is registered for
    calls,        \* number of CachedPath calls made
    last,         \* the last call: its arguments, its result, what it did
    prevDisk,     \* the file system when the last call started
    prior,        \* the extraction the call before the last one ended in
    \* ---- SpecUtil: the pure functions of util.go ----
    keys,         \* (url, etag) -> ResourceToFilename(url, etag), as applied
    split,        \* the last ParseArchivePath: its argument and its results
    \* ---- SpecClient: the registered HTTP client under concurrent calls ----
    client,       \* the fields of the one registered *HTTPClient
    copts,        \* call -> the options it was called with
    cpc,          \* call -> position in handleRemoteURL
    used,         \* call -> the client fields each of its requests ran with
    \* ---- SpecCall: one remote call and its environment ----
    callPc,       \* position of the call in handleRemoteURL
    callOpt,      \* Options.MaxRetries of the call
    callEtag,     \* etag of handleRemoteURL
    callTries,    \* loop variable i of FileLock.Lock
    lockHolder,   \* who holds the flock: "none", "other" (a process), "self"
    callFs,       \* the cache directory: path -> file content
    decided,      \* what the cache check found: "none", "fresh", "stale"
    gets,         \* number of GetResource calls made
    callRet       \* how the call ended: "none", "path", "error", "panic"

retryVars == <<maxRetries, retryDelay, attempt, resp, err, reqs, sleeps, rpc, ret>>

mainVars == <<fs, flocks, pc, etag, tries, dlErr, metaErr, result,
              before, entry, waited, probed, headErr, fetched, published, faulty>>

resolveVars == <<disk, registry, calls, last, prevDisk, prior>>

utilVars == <<keys, split>>

clientVars == <<client, copts, cpc, used>>

callVars == <<callPc, callOpt, callEtag, callTries, lockHolder, callFs,
              decided, gets, callRet>>

vars == <<retryVars, mainVars, resolveVars, callVars, utilVars, clientVars>>

\* SpecRetry and Spec make no sequential CachedPath call
ResolveIdle ==
    /\ disk = <<>> /\ registry = {} /\ calls = 0 /\ last = <<>>
    /\ prevDisk = <<>> /\ prior = <<>>

\* only SpecUtil applies the functions of util.go on their own
UtilIdle == keys = <<>> /\ split = <<>>

\* only SpecCall runs a call against its environment
CallIdle ==
    /\ callPc = "" /\ callOpt = 0 /\ callEtag = <<>> /\ callTries = 0
    /\ lockHolder = "" /\ callFs = <<>> /\ decided = "" /\ gets = 0
    /\ callRet = ""

\* only SpecClient runs calls with different options
ClientIdle == client = <<>> /\ copts = <<>> /\ cpc = <<>> /\ used = <<>>

(***************************************************************************)
(* doRequestWithRetry                                                      *)
(***************************************************************************)
\* the loop condition `attempt <= c.maxRetries`
LoopCond(a, m) == a <= m

\* mutant of Backoff: exponential backoff
Backoff_Exponential(d, a) == d * (2 ^ (a - 1))

\* `time.Sleep(c.retryDelay * time.Duration(attempt))` when attempt > 0
Backoff(d, a) == d * a

\* `err == nil && resp.StatusCode == http.StatusOK`
IsSuccess(e, s) == e = Nil /\ s = StatusOK

\* mutant of IsClientError: the lower limit of the range is exclusive
IsClientError_Above400(e, s) == e = Nil /\ s > 400 /\ s < 500

\* `err == nil` and `resp.StatusCode >= 400 && resp.StatusCode < 500`
IsClientError(e, s) == e = Nil /\ s >= 400 /\ s < 500

\* mutant of IsLastAttempt: the loop gives up one attempt early
IsLastAttempt_Early(a, m) == a + 1 >= m

\* `attempt == c.maxRetries`: the last attempt leaves the loop
IsLastAttempt(a, m) == a = m

\* the loop state before the first iteration: resp and err are Go zero values
LoopStart == [attempt |-> 0, resp |-> Nil, err |-> Nil,
              reqs |-> <<>>, sleeps |-> <<>>, rpc |-> "loop"]

\* one iteration of the for loop on outcome `out` of client.Do, delay d and
\* maxRetries m: sleep, client.Do, the two early returns, the break on the
\* last attempt, attempt++
Iterate(st, out, d, m) ==
    LET r == IF out > 0 THEN out ELSE Nil
        e == IF out < 0 THEN out ELSE Nil
        cont == ~(IsSuccess(e, r) \/ IsClientError(e, r))
    IN  [attempt |-> IF cont /\ ~IsLastAttempt(st.attempt, m)
                       THEN st.attempt + 1 ELSE st.attempt,
         resp    |-> r,
         err     |-> e,
         reqs    |-> Append(st.reqs, out),
         sleeps  |-> IF st.attempt > 0
                       THEN Append(st.sleeps, Backoff(d, st.attempt))
                       ELSE st.sleeps,
         rpc     |-> IF ~cont THEN "returned"
                     ELSE IF IsLastAttempt(st.attempt, m) THEN "after"
                     ELSE "loop"]

\* after the loop: `if err != nil { return nil, failed after ... }`,
\* else `return resp, nil`
AfterLoop(st) == [st EXCEPT !.rpc = IF st.err # Nil THEN "failed" ELSE "returned"]

\* What downloadFile gets from GetResource, as [kind, cause, status]: status
\* is the status or the transport error the failure carries.
\* GetResource after doRequestWithRetry returned: the error return, the
\* deferred resp.Body.Close() on the response (a nil response dereferenced
\* there is a run-time panic), the status check; downloadFile wraps every
\* GetResource error as ErrDownloadFailed
GetResourceStatus(st) ==
    IF st.rpc = "failed"
      THEN [kind |-> "DownloadFailed", cause |-> "error", status |-> st.err]
    ELSE IF st.resp = Nil
      THEN [kind |-> "panic", cause |-> "nil response", status |-> Nil]
    ELSE IF st.resp # StatusOK
      THEN [kind |-> "DownloadFailed", cause |-> "status", status |-> st.resp]
    ELSE [kind |-> "copy", cause |-> "", status |-> st.resp]

\* io.Copy(writer, resp.Body): nil, or "failed to write response"
CopyResult(ok) ==
    IF ok THEN [kind |-> "ok", cause |-> "", status |-> StatusOK]
          ELSE [kind |-> "DownloadFailed", cause |-> "write", status |-> StatusOK]

NoRet == [kind |-> "none", cause |-> "", status |-> Nil]

Cur == [attempt |-> attempt, resp |-> resp, err |-> err,
        reqs |-> reqs, sleeps |-> sleeps, rpc |-> rpc]

SetCur(st) ==
    /\ attempt' = st.attempt
    /\ resp' = st.resp
    /\ err' = st.err
    /\ reqs' = st.reqs
    /\ sleeps' = st.sleeps
    /\ rpc' = st.rpc

\* SpecRetry runs no CachedPath call
MainIdle ==
    /\ fs = <<>> /\ flocks = <<>> /\ pc = <<>> /\ etag = <<>> /\ tries = <<>>
    /\ dlErr = <<>> /\ metaErr = <<>> /\ result = <<>> /\ before = <<>>
    /\ entry = <<>> /\ waited = <<>> /\ probed = <<>> /\ fetched = <<>>
    /\ headErr = <<>>
    /\ published = <<>> /\ faulty = FALSE

InitRetry ==
    /\ CallIdle
    /\ MainIdle
    /\ ResolveIdle
    /\ UtilIdle
    /\ ClientIdle
    /\ maxRetries \in -1 .. MaxRetriesBound
    /\ retryDelay \in 1 .. MaxDelay
    /\ attempt = LoopStart.attempt
    /\ resp = LoopStart.resp
    /\ err = LoopStart.err
    /\ reqs = LoopStart.reqs
    /\ sleeps = LoopStart.sleeps
    /\ rpc = LoopStart.rpc
    /\ ret = NoRet

\* one iteration of the loop of doRequestWithRetry
RetryAttempt ==
    /\ rpc = "loop"
    /\ LoopCond(attempt, maxRetries)
    /\ \E out \in Outcomes : SetCur(Iterate(Cur, out, retryDelay, maxRetries))
    /\ UNCHANGED <<maxRetries, retryDelay, ret, mainVars,
                   resolveVars, callVars, utilVars, clientVars>>

\* the loop condition is false on entry (maxRetries < 0): no iteration runs
RetrySkip ==
    /\ rpc = "loop"
    /\ ~LoopCond(attempt, maxRetries)
    /\ rpc' = "after"
    /\ UNCHANGED <<maxRetries, retryDelay, attempt, resp, err, reqs, sleeps, ret, mainVars,
                   resolveVars, callVars, utilVars, clientVars>>

\* the code after the loop
RetryExit ==
    /\ rpc = "after"
    /\ SetCur(AfterLoop(Cur))
    /\ UNCHANGED <<maxRetries, retryDelay, ret, mainVars,
                   resolveVars, callVars, utilVars, clientVars>>

\* GetResource's handling of what doRequestWithRetry returned
GetResourceReturn ==
    /\ rpc \in {"returned", "failed"}
    /\ LET r == GetResourceStatus(Cur)
       IN  IF r.kind = "copy"
             THEN rpc' = "copy" /\ ret' = ret
             ELSE rpc' = "done" /\ ret' = r
    /\ UNCHANGED <<maxRetries, retryDelay, attempt, resp, err, reqs, sleeps, mainVars,
                   resolveVars, callVars, utilVars, clientVars>>

\* GetResource copies the body of a 200 response into the writer
CopyBody ==
    /\ rpc = "copy"
    /\ \E ok \in BOOLEAN : ret' = CopyResult(ok)
    /\ rpc' = "done"
    /\ UNCHANGED <<maxRetries, retryDelay, attempt, resp, err, reqs, sleeps, mainVars,
                   resolveVars, callVars, utilVars, clientVars>>

NextRetry == RetryAttempt \/ RetrySkip \/ RetryExit \/ GetResourceReturn \/ CopyBody

SpecRetry == InitRetry /\ [][NextRetry]_vars

(***************************************************************************)
(* Claims about the transport call, checked under SpecRetry.               *)
(***************************************************************************)
RECURSIVE SumSeq(_)
SumSeq(q) == IF q = <<>> THEN 0 ELSE Head(q) + SumSeq(Tail(q))

Last(q) == q[Len(q)]

LoopOver == rpc \notin {"loop", "after"}

\* at least one request was issued and every one ended in a transport error
\* or a 5xx status
AllAttemptsFailed ==
    /\ Len(reqs) >= 1
    /\ \A i \in 1 .. Len(reqs) : reqs[i] \in TransportErrors \/ Is5xx(reqs[i])

\* C7: when every attempt of a transport call ended in a transport error or a
\* 5xx status, the call has issued the first attempt plus maxRetries retries
\* and downloadFile fails with DownloadFailed carrying the error or the
\* status of the last attempt.
C7_RetryBudgetExhausted ==
    (rpc = "done" /\ AllAttemptsFailed) =>
        /\ Len(reqs) = maxRetries + 1
        /\ ret.kind = "DownloadFailed"
        /\ ret.status = Last(reqs)
        /\ ret.cause = IF Last(reqs) \in TransportErrors THEN "error" ELSE "status"

\* a call with three retries whose attempts all failed, first with a
\* transport error and last with a 5xx status
C7_Witness ==
    /\ rpc = "done"
    /\ AllAttemptsFailed
    /\ maxRetries = 3
    /\ Len(reqs) = 4
    /\ reqs[1] \in TransportErrors
    /\ Is5xx(reqs[4])
    /\ reqs[3] # reqs[4]

\* C8: a 4xx status is never retried: a 4xx response is the last request of
\* its call, the loop is over once it is received, and the call fails with
\* that status.
C8_ClientErrorNotRetried ==
    \A i \in 1 .. Len(reqs) :
        Is4xx(reqs[i]) =>
            /\ i = Len(reqs)
            /\ LoopOver
            /\ rpc = "done" => (ret.kind = "DownloadFailed" /\ ret.status = reqs[i])

\* a 4xx answer to a retry, with retries left in the budget
C8_Witness ==
    /\ rpc = "done"
    /\ Len(reqs) = 2
    /\ Is4xx(reqs[2])
    /\ maxRetries >= 3

\* C9 as stated: any 2xx status ends the loop at that attempt and the call
\* does not fail on the status.
C9_Any2xxSucceeds ==
    \A i \in 1 .. Len(reqs) :
        Is2xx(reqs[i]) =>
            /\ i = Len(reqs)
            /\ LoopOver
            /\ rpc = "done" => ret.cause # "status"

\* C37 as stated: for every configured retry count, zero and negative ones
\* included, doRequestWithRetry returns a response or an error, never
\* neither, and GetResource ends in a success or an error, not in a panic.
C37_ResponseOrError ==
    /\ rpc \in {"returned", "failed"} => (resp # Nil \/ err # Nil)
    /\ rpc = "done" => ret.kind \in {"ok", "DownloadFailed"}

\* C10: linear backoff: no sleep precedes the first attempt, the sleep before
\* attempt k >= 1 is retryDelay * k; with maxRetries = 3 and the answers 503,
\* 503, 200 the loop returns the 200 response after three requests and a
\* total sleep of retryDelay * 1 + retryDelay * 2.
C10_LinearBackoff ==
    /\ Len(sleeps) = (IF reqs = <<>> THEN 0 ELSE Len(reqs) - 1)
    /\ \A k \in 1 .. Len(sleeps) : sleeps[k] = retryDelay * k
    /\ (maxRetries = 3 /\ reqs = <<503, 503, 200>>) =>
            /\ rpc \in {"returned", "copy", "done"}
            /\ resp = StatusOK /\ err = Nil
            /\ SumSeq(sleeps) = retryDelay * 1 + retryDelay * 2
            /\ rpc = "done" => ret.cause # "status"

\* the scenario of C10 ended in success
C10_Witness ==
    /\ maxRetries = 3
    /\ retryDelay = 2
    /\ reqs = <<503, 503, 200>>
    /\ sleeps = <<2, 4>>
    /\ rpc = "done"
    /\ ret.kind = "ok"

(***************************************************************************)
(* Spec: NumProcs concurrent CachedPath calls on one remote URL.           *)
(* Strings are sequences of tokens, so that concatenation is what it is    *)
(* in the code.                                                            *)
(***************************************************************************)
Procs == 1 .. NumProcs

\* the identifier every call resolves
URL == <<"https:", "/", "/", "host", "/", "f", ".", "bin">>
\* Options.CacheDir
CacheDir == <<"cache">>
\* the ETag header the server sends with a 200 answer to HEAD
ServerETag == <<"v1">>
\* the values of etag in handleRemoteURL: "" after a failed probe
Etags == {<<>>, ServerETag}

\* the indices of token c in q
IndicesOf(q, c) == {i \in 1 .. Len(q) : q[i] = c}

\* the largest index of token c in q, 0 if there is none
LastIndexOf(q, c) ==
    IF IndicesOf(q, c) = {} THEN 0
    ELSE CHOOSE i \in IndicesOf(q, c) : \A j \in IndicesOf(q, c) : j <= i

\* the index of the n-th occurrence of c in q, 0 if there is none
IndexOfNth(q, c, n) ==
    LET at == {i \in IndicesOf(q, c) :
                  Cardinality({j \in IndicesOf(q, c) : j <= i}) = n}
    IN  IF at = {} THEN 0 ELSE CHOOSE i \in at : TRUE

\* url.Parse(u).Path of scheme://host/path: from the third slash on
URLPath(u) ==
    LET i == IndexOfNth(u, "/", 3)
    IN  IF i = 0 THEN <<>> ELSE SubSeq(u, i, Len(u))

\* filepath.Ext: the suffix from the last dot of the last path element
Ext(path) ==
    LET dot == LastIndexOf(path, ".")
        sep == LastIndexOf(path, "/")
    IN  IF dot > sep THEN SubSeq(path, dot, Len(path)) ELSE <<>>

\* hex(sha256(bytes)): one name token without dot or slash, a different
\* one for every different argument
Sha256Hex(bytes) == ToString(bytes)

\* the hash of url ++ etag followed by the extension of the URL path
ResourceToFilename(url, e) == <<Sha256Hex(url \o e)>> \o Ext(URLPath(url))

\* the smallest index of token c in q, 0 if there is none
FirstIndexOf(q, c) ==
    IF IndicesOf(q, c) = {} THEN 0
    ELSE CHOOSE i \in IndicesOf(q, c) : \A j \in IndicesOf(q, c) : i <= j

RECURSIVE SplitAt(_, _)
\* strings.Split(q, c): the runs of tokens between the occurrences of c
SplitAt(q, c) ==
    LET i == FirstIndexOf(q, c)
    IN  IF i = 0 THEN <<q>>
        ELSE <<SubSeq(q, 1, i - 1)>> \o SplitAt(SubSeq(q, i + 1, Len(q)), c)

RECURSIVE CleanStack(_, _, _)
\* filepath.Clean, element by element: empty and "." elements are dropped,
\* ".." removes the element before it, is dropped at the root, and is kept
\* at the start of a relative path
CleanStack(comps, out, rooted) ==
    IF comps = <<>> THEN out
    ELSE LET c == Head(comps)
             rest == Tail(comps)
         IN  IF c = <<>> \/ c = <<".">> THEN CleanStack(rest, out, rooted)
             ELSE IF c = <<"..">>
               THEN IF out # <<>> /\ out[Len(out)] # <<"..">>
                      THEN CleanStack(rest, SubSeq(out, 1, Len(out) - 1), rooted)
                      ELSE IF rooted THEN CleanStack(rest, out, rooted)
                           ELSE CleanStack(rest, Append(out, c), rooted)
               ELSE CleanStack(rest, Append(out, c), rooted)

RECURSIVE JoinComps(_)
\* the elements joined by slashes
JoinComps(cs) ==
    IF cs = <<>> THEN <<>>
    ELSE IF Len(cs) = 1 THEN cs[1]
         ELSE cs[1] \o <<"/">> \o JoinComps(Tail(cs))

\* filepath.Clean(path)
Clean(path) ==
    IF path = <<>> THEN <<".">>
    ELSE LET rooted == path[1] = "/"
             out == CleanStack(SplitAt(path, "/"), <<>>, rooted)
         IN  IF rooted THEN <<"/">> \o JoinComps(out)
             ELSE IF out = <<>> THEN <<".">> ELSE JoinComps(out)

\* filepath.Join(dir, name): the non-empty arguments joined by a slash,
\* then cleaned
Join(dir, name) ==
    IF dir = <<>> /\ name = <<>> THEN <<>>
    ELSE IF dir = <<>> THEN Clean(name)
    ELSE IF name = <<>> THEN Clean(dir)
    ELSE Clean(dir \o <<"/">> \o name)

\* filepath.Dir(path): the path up to its last slash, cleaned
Dir(path) == Clean(SubSeq(path, 1, LastIndexOf(path, "/")))

RECURSIVE TrimSlashes(_)
\* the path without its trailing slashes
TrimSlashes(path) ==
    IF path # <<>> /\ path[Len(path)] = "/"
      THEN TrimSlashes(SubSeq(path, 1, Len(path) - 1))
      ELSE path

\* filepath.Base(path): the last element of the path
Base(path) ==
    IF path = <<>> THEN <<".">>
    ELSE LET t == TrimSlashes(path)
         IN  IF t = <<>> THEN <<"/">>
             ELSE SubSeq(t, LastIndexOf(t, "/") + 1, Len(t))

\* strings.HasPrefix and strings.HasSuffix
HasPrefix(q, pre) == Len(q) >= Len(pre) /\ SubSeq(q, 1, Len(pre)) = pre
HasSuffix(q, suf) ==
    Len(q) >= Len(suf) /\ SubSeq(q, Len(q) - Len(suf) + 1, Len(q)) = suf

\* strings.ToLower, token by token
LowerToken(t) ==
    CASE t = "ZIP" -> "zip"
      [] t = "TAR" -> "tar"
      [] t = "GZ" -> "gz"
      [] t = "TGZ" -> "tgz"
      [] OTHER -> t
ToLower(q) == [i \in 1 .. Len(q) |-> LowerToken(q[i])]

CachePathOf(e) == Join(CacheDir, ResourceToFilename(URL, e))

\* mutant of LockFilePath: one lock file for the whole cache directory
LockFilePath_Global(cachePath) == Join(CacheDir, <<".lock">>)

\* LockFilePath: cachePath + ".lock"
LockFilePath(cachePath) == cachePath \o <<".lock">>

MetaFilePath(cachePath) == cachePath \o <<".meta.json">>

\* mutant of TmpPath: the download is written straight to the destination
TmpPath_Dest(p, destPath) == destPath

\* os.CreateTemp(filepath.Dir(destPath), ".download-*"): a fresh name
TmpPath(p, destPath) == Join(Dir(destPath), <<".download-", ToString(p)>>)

\* cachePath, lockPath, metaPath and tmpPath of call p
\* the paths are functions of the ETag (and of the call) alone: tabulated once
CachePathTable == [e \in Etags |-> CachePathOf(e)]
LockPathTable == [e \in Etags |-> LockFilePath(CachePathTable[e])]
MetaPathTable == [e \in Etags |-> MetaFilePath(CachePathTable[e])]
TmpPathTable ==
    [p \in Procs |-> [e \in Etags |-> TmpPath(p, CachePathTable[e])]]

CachePath(p) == CachePathTable[etag[p]]
LockPath(p) == LockPathTable[etag[p]]
MetaPath(p) == MetaPathTable[etag[p]]
TmpOf(p) == TmpPathTable[p][etag[p]]

CachePaths == {CachePathOf(e) : e \in Etags}
LockPaths == {LockFilePath(c) : c \in CachePaths}
Paths == CachePaths \cup LockPaths \cup {MetaFilePath(c) : c \in CachePaths}
            \cup {TmpPath(p, c) : p \in Procs, c \in CachePaths}

\* file contents: no file; an empty lock file; len chunks of a response
\* body; a file truncated by os.WriteFile and not yet written; the JSON of a
\* Meta with its ETag
Absent == [kind |-> "none", len |-> 0, etag |-> <<>>]
LockFile == [kind |-> "lock", len |-> 0, etag |-> <<>>]
Body(n) == [kind |-> "body", len |-> n, etag |-> <<>>]
Truncated == [kind |-> "trunc", len |-> 0, etag |-> <<>>]
MetaJSON(e) == [kind |-> "json", len |-> 1, etag |-> e]

\* FileExists: os.Stat succeeds
FileExists(f, path) == f[path] # Absent

\* os.Rename(old, new)
Rename(f, old, new) ==
    IF old = new THEN f ELSE [f EXCEPT ![new] = f[old], ![old] = Absent]

\* os.Remove(path)
Remove(f, path) == [f EXCEPT ![path] = Absent]

\* LoadMetaFromFile: [ok, etag]; a truncated file does not unmarshal
LoadMetaFromFile(f, path) ==
    IF f[path].kind = "json" THEN [ok |-> TRUE, etag |-> f[path].etag]
                             ELSE [ok |-> FALSE, etag |-> <<>>]

(***************************************************************************)
(* The transport calls of handleRemoteURL and downloadFile.  A script is   *)
(* what the server answers to the successive requests of one call.         *)
(***************************************************************************)
MainOutcomes == {200, 400, 503, Timeout}
NetScripts == [1 .. OptMaxRetries + 1 -> MainOutcomes]

RECURSIVE RunLoop(_, _, _, _)
\* doRequestWithRetry run to its return on the answers outs
RunLoop(st, outs, d, m) ==
    IF st.rpc = "loop"
      THEN IF LoopCond(st.attempt, m)
             THEN RunLoop(Iterate(st, outs[Len(st.reqs) + 1], d, m), outs, d, m)
             ELSE AfterLoop(st)
      ELSE IF st.rpc = "after" THEN AfterLoop(st) ELSE st

\* doRequestWithRetry with the client configured by SetRetryConfig from the
\* call's options
DoRequestWithRetry(outs) == RunLoop(LoopStart, outs, 1, OptMaxRetries)

\* GetSize and GetETag succeed iff the request returned a 200 response
HeadOK(st) == st.rpc = "returned" /\ st.resp = StatusOK

\* mutant of ProbedETag: a failed probe does not reset the token
ProbedETag_Kept(st) == ServerETag

\* `etag, err := client.GetETag(...)`, `if err != nil { etag = "" }`
ProbedETag(st) == IF HeadOK(st) THEN ServerETag ELSE <<>>

\* the loop bound of FileLock.Lock
LockMaxRetries == 60

\* mutant of LockExhausted: Lock gives up after the first failed attempt
LockExhausted_First(i) == i >= 1

\* mutant of LockExhausted: the loop makes one more attempt
LockExhausted_Late(i) == i > LockMaxRetries

\* the loop condition `i < maxRetries` of FileLock.Lock is false
LockExhausted(i) == i >= LockMaxRetries

\* mutant of FlockFree: the flock is granted whoever holds it
FlockFree_Always(fl, lockPath) == TRUE

\* syscall.Flock(LOCK_EX|LOCK_NB) succeeds iff no other open file holds it
FlockFree(fl, lockPath) == fl[lockPath] = 0

\* mutant of IsFresh: the ETag comparison is inverted
IsFresh_Mismatch(f, cachePath, e) ==
    /\ FileExists(f, cachePath)
    /\ FileExists(f, MetaFilePath(cachePath))
    /\ LoadMetaFromFile(f, MetaFilePath(cachePath)).ok
    /\ LoadMetaFromFile(f, MetaFilePath(cachePath)).etag # e

\* mutant of IsFresh: the stored ETag is not compared
IsFresh_AnyToken(f, cachePath, e) ==
    /\ FileExists(f, cachePath)
    /\ FileExists(f, MetaFilePath(cachePath))
    /\ LoadMetaFromFile(f, MetaFilePath(cachePath)).ok

\* the check inside WithLock: the cache file exists, its metadata file
\* exists and loads, and the stored ETag equals the probed one
IsFresh(f, cachePath, e) ==
    /\ FileExists(f, cachePath)
    /\ FileExists(f, MetaFilePath(cachePath))
    /\ LoadMetaFromFile(f, MetaFilePath(cachePath)).ok
    /\ LoadMetaFromFile(f, MetaFilePath(cachePath)).etag = e

NoResult == [path |-> <<>>, err |-> ""]
Failure(e) == [path |-> <<>>, err |-> e]
Success(path) == [path |-> path, err |-> ""]

\* SpecRetry's variables are not used by Spec
RetryIdle ==
    /\ maxRetries = OptMaxRetries /\ retryDelay = 1
    /\ attempt = 0 /\ resp = Nil /\ err = Nil /\ reqs = <<>> /\ sleeps = <<>>
    /\ rpc = "idle" /\ ret = NoRet

Init ==
    /\ CallIdle
    /\ RetryIdle
    /\ ResolveIdle
    /\ UtilIdle
    /\ ClientIdle
    /\ fs = [x \in Paths |-> Absent]
    /\ flocks = [l \in LockPaths |-> 0]
    /\ pc = [p \in Procs |-> "idle"]
    /\ etag = [p \in Procs |-> <<>>]
    /\ tries = [p \in Procs |-> 0]
    /\ dlErr = [p \in Procs |-> ""]
    /\ metaErr = [p \in Procs |-> FALSE]
    /\ result = [p \in Procs |-> NoResult]
    /\ before = [p \in Procs |-> {}]
    /\ entry = [p \in Procs |-> Absent]
    /\ waited = [p \in Procs |-> FALSE]
    /\ probed = [p \in Procs |-> FALSE]
    /\ headErr = [p \in Procs |-> FALSE]
    /\ fetched = [p \in Procs |-> FALSE]
    /\ published = [p \in Procs |-> FALSE]
    /\ faulty = FALSE

Goto(p, l) == pc' = [pc EXCEPT ![p] = l]
Return(p, r) == result' = [result EXCEPT ![p] = r] /\ Goto(p, "done")

\* CachedPath is called: options, EnsureDir, ParseArchivePath, IsURL;
\* handleRemoteURL: GetScheme, GetClient, SetHTTPClient, SetRetryConfig
Start(p) ==
    /\ pc[p] = "idle"
    /\ before' = [before EXCEPT ![p] = {q \in Procs : pc[q] = "done"}]
    /\ Goto(p, "etag")
    /\ UNCHANGED <<retryVars, resolveVars, callVars, utilVars, clientVars, fs, flocks, etag, tries, dlErr, metaErr, result,
                   entry, waited, probed, headErr, fetched, published, faulty>>

\* client.GetETag; ResourceToFilename, cachePath, lockPath
GetETagStep(p) ==
    /\ pc[p] = "etag"
    /\ \E outs \in NetScripts :
        LET st == DoRequestWithRetry(outs)
        IN  /\ etag' = [etag EXCEPT ![p] = ProbedETag(st)]
            /\ headErr' = [headErr EXCEPT ![p] = ~HeadOK(st)]
            /\ faulty' = (faulty \/ ~HeadOK(st))
    /\ Goto(p, "open")
    /\ UNCHANGED <<retryVars, resolveVars, callVars, utilVars, clientVars, fs, flocks, tries, dlErr, metaErr, result,
                   before, entry, waited, probed, fetched, published>>

\* FileLock.Lock: os.OpenFile(fl.path, O_CREATE|O_RDWR)
LockOpen(p) ==
    /\ pc[p] = "open"
    /\ \/ /\ fs' = IF FileExists(fs, LockPath(p)) THEN fs
                   ELSE [fs EXCEPT ![LockPath(p)] = LockFile]
          /\ Goto(p, "flock")
          /\ UNCHANGED <<result, faulty>>
       \/ /\ Return(p, Failure("open"))
          /\ faulty' = TRUE
          /\ fs' = fs
    /\ UNCHANGED <<retryVars, resolveVars, callVars, utilVars, clientVars, flocks, etag, tries, dlErr, metaErr,
                   before, entry, waited, probed, headErr, fetched, published>>

\* FileLock.Lock: one iteration of the flock loop.  The lock is granted, or
\* held by another open file (EWOULDBLOCK: sleep, i++, ErrLockFailed when the
\* loop ends), or flock fails otherwise (returned at once)
LockAttempt(p) ==
    /\ pc[p] = "flock"
    /\ \/ /\ FlockFree(flocks, LockPath(p))
          /\ flocks' = [flocks EXCEPT ![LockPath(p)] = p]
          /\ entry' = [entry EXCEPT ![p] = fs[CachePath(p)]]
          /\ Goto(p, "check")
          /\ UNCHANGED <<tries, waited, result, faulty>>
       \/ /\ ~FlockFree(flocks, LockPath(p))
          /\ tries' = [tries EXCEPT ![p] = @ + 1]
          /\ waited' = [waited EXCEPT ![p] = TRUE]
          /\ IF LockExhausted(tries[p] + 1)
               THEN Return(p, Failure("LockFailed"))
               ELSE UNCHANGED <<pc, result>>
          /\ UNCHANGED <<flocks, entry, faulty>>
       \/ /\ Return(p, Failure("flock"))
          /\ faulty' = TRUE
          /\ UNCHANGED <<flocks, entry, tries, waited>>
    /\ UNCHANGED <<retryVars, resolveVars, callVars, utilVars, clientVars, fs, etag, dlErr, metaErr,
                   before, probed, headErr, fetched, published>>

\* inside WithLock: the cache check; a fresh entry returns nil
CheckCache(p) ==
    /\ pc[p] = "check"
    /\ IF IsFresh(fs, CachePath(p), etag[p])
         THEN Goto(p, "unlock")
         ELSE Goto(p, "size")
    /\ UNCHANGED <<retryVars, resolveVars, callVars, utilVars, clientVars, fs, flocks, etag, tries, dlErr, metaErr, result,
                   before, entry, waited, probed, headErr, fetched, published, faulty>>

\* downloadFile: client.GetSize; an error only sets size = 0
GetSizeStep(p) ==
    /\ pc[p] = "size"
    /\ probed' = [probed EXCEPT ![p] = TRUE]
    /\ \E outs \in NetScripts :
        faulty' = (faulty \/ ~HeadOK(DoRequestWithRetry(outs)))
    /\ Goto(p, "mktemp")
    /\ UNCHANGED <<retryVars, resolveVars, callVars, utilVars, clientVars, fs, flocks, etag, tries, dlErr, metaErr, result,
                   before, entry, waited, headErr, fetched, published>>

\* the path of downloadFile's `defer os.Remove(tmpPath)`
CleanupPath(p) == TmpOf(p)

\* mutant of AfterFailedFetch: the rename is not skipped when the fetch failed
AfterFailedFetch_Renamed(f, p) ==
    Remove(Rename(f, TmpOf(p), CachePath(p)), CleanupPath(p))

\* downloadFile returns ErrDownloadFailed before os.Rename when GetResource
\* failed: of its file operations only the deferred os.Remove(tmpPath) runs
AfterFailedFetch(f, p) == Remove(f, CleanupPath(p))

\* the function passed to WithLock returns error e, leaving the files as f
Abort(p, e, f) ==
    /\ fs' = f
    /\ dlErr' = [dlErr EXCEPT ![p] = e]
    /\ faulty' = TRUE
    /\ Goto(p, "unlock")

\* downloadFile: os.CreateTemp
CreateTemp(p) ==
    /\ pc[p] = "mktemp"
    /\ \/ /\ fs' = [fs EXCEPT ![TmpOf(p)] = Body(0)]
          /\ Goto(p, "get")
          /\ UNCHANGED <<dlErr, faulty>>
       \/ /\ dlErr' = [dlErr EXCEPT ![p] = "temp"]
          /\ faulty' = TRUE
          /\ Goto(p, "unlock")
          /\ fs' = fs
    /\ UNCHANGED <<retryVars, resolveVars, callVars, utilVars, clientVars, flocks, etag, tries, metaErr, result,
                   before, entry, waited, probed, headErr, fetched, published>>

\* downloadFile: client.GetResource up to the status check; any error
\* is wrapped as ErrDownloadFailed
GetResourceStep(p) ==
    /\ pc[p] = "get"
    /\ fetched' = [fetched EXCEPT ![p] = TRUE]
    /\ \E outs \in NetScripts :
        IF GetResourceStatus(DoRequestWithRetry(outs)).kind = "copy"
          THEN Goto(p, "copy") /\ UNCHANGED <<fs, dlErr, faulty>>
          ELSE Abort(p, "DownloadFailed", AfterFailedFetch(fs, p))
    /\ UNCHANGED <<retryVars, resolveVars, callVars, utilVars, clientVars, flocks, etag, tries, metaErr, result,
                   before, entry, waited, probed, headErr, published>>

\* GetResource: io.Copy writes one more chunk of the body into the
\* temporary file, or the write fails; after the last chunk GetResource
\* returns nil and the file is closed
CopyChunk(p) ==
    /\ pc[p] = "copy"
    /\ \/ /\ fs' = [fs EXCEPT ![TmpOf(p)] = Body(fs[TmpOf(p)].len + 1)]
          /\ IF fs[TmpOf(p)].len + 1 >= ContentLen
               THEN Goto(p, "rename")
               ELSE pc' = pc
          /\ UNCHANGED <<dlErr, faulty>>
       \/ Abort(p, CopyResult(FALSE).kind, AfterFailedFetch(fs, p))
    /\ UNCHANGED <<retryVars, resolveVars, callVars, utilVars, clientVars, flocks, etag, tries, metaErr, result,
                   before, entry, waited, probed, headErr, fetched, published>>

\* downloadFile: os.Rename(tmpPath, destPath), then the deferred
\* os.Remove(tmpPath)
RenameStep(p) ==
    /\ pc[p] = "rename"
    /\ \/ /\ fs' = Remove(Rename(fs, TmpOf(p), CachePath(p)), CleanupPath(p))
          /\ published' = [published EXCEPT ![p] = TRUE]
          /\ Goto(p, "unlock")
          /\ UNCHANGED <<dlErr, faulty>>
       \/ /\ Abort(p, "rename", Remove(fs, CleanupPath(p)))
          /\ published' = published
    /\ UNCHANGED <<retryVars, resolveVars, callVars, utilVars, clientVars, flocks, etag, tries, metaErr, result,
                   before, entry, waited, probed, headErr, fetched>>

\* mutant of DeferredUnlock: the lock is released only when fn succeeded
DeferredUnlock_OnSuccess(fl, lockPath, e) ==
    IF e = "" THEN [fl EXCEPT ![lockPath] = 0] ELSE fl

\* `defer lock.Unlock()` of WithLock: flock(LOCK_UN) and Close, whatever
\* error e the function returned
DeferredUnlock(fl, lockPath, e) == [fl EXCEPT ![lockPath] = 0]

\* mutant of BodyFailed: the error of WithLock is not looked at
BodyFailed_Ignored(e) == FALSE

\* `if err != nil { return "", err }` after WithLock
BodyFailed(e) == e # ""

\* WithLock's deferred lock.Unlock(); handleRemoteURL returns the error of
\* the locked function if there is one
Unlock(p) ==
    /\ pc[p] = "unlock"
    /\ flocks' = DeferredUnlock(flocks, LockPath(p), dlErr[p])
    /\ IF BodyFailed(dlErr[p])
         THEN Return(p, Failure(dlErr[p]))
         ELSE Goto(p, "meta") /\ result' = result
    /\ UNCHANGED <<retryVars, resolveVars, callVars, utilVars, clientVars, fs, etag, tries, dlErr, metaErr,
                   before, entry, waited, probed, headErr, fetched, published, faulty>>

\* mutant of OnSaveError: the error of meta.SaveToFile is returned
OnSaveError_Fatal(p) == Return(p, Failure("meta"))

\* `if err := meta.SaveToFile(metaPath); err != nil`: only a warning is
\* printed and handleRemoteURL goes on
OnSaveError(p) == Goto(p, "final") /\ result' = result

\* meta.SaveToFile: os.WriteFile opens the metadata file with O_TRUNC
SaveMetaOpen(p) ==
    /\ pc[p] = "meta"
    /\ \/ /\ fs' = [fs EXCEPT ![MetaPath(p)] = Truncated]
          /\ Goto(p, "metaw")
          /\ UNCHANGED <<metaErr, faulty, result>>
       \/ /\ metaErr' = [metaErr EXCEPT ![p] = TRUE]
          /\ faulty' = TRUE
          /\ OnSaveError(p)
          /\ fs' = fs
    /\ UNCHANGED <<retryVars, resolveVars, callVars, utilVars, clientVars, flocks, etag, tries, dlErr,
                   before, entry, waited, probed, headErr, fetched, published>>

\* meta.SaveToFile: os.WriteFile writes the JSON and closes; a failure is
\* only a warning
SaveMetaWrite(p) ==
    /\ pc[p] = "metaw"
    /\ \/ /\ fs' = [fs EXCEPT ![MetaPath(p)] = MetaJSON(etag[p])]
          /\ Goto(p, "final")
          /\ UNCHANGED <<metaErr, faulty, result>>
       \/ /\ metaErr' = [metaErr EXCEPT ![p] = TRUE]
          /\ faulty' = TRUE
          /\ OnSaveError(p)
          /\ fs' = fs
    /\ UNCHANGED <<retryVars, resolveVars, callVars, utilVars, clientVars, flocks, etag, tries, dlErr,
                   before, entry, waited, probed, headErr, fetched, published>>

\* handleRemoteURL with no internal path and no extraction requested:
\* `return cachePath, nil`
ReturnPath(p) ==
    /\ pc[p] = "final"
    /\ Return(p, Success(CachePath(p)))
    /\ UNCHANGED <<retryVars, resolveVars, callVars, utilVars, clientVars, fs, flocks, etag, tries, dlErr, metaErr,
                   before, entry, waited, probed, headErr, fetched, published, faulty>>

Proc(p) ==
    \/ Start(p) \/ GetETagStep(p) \/ LockOpen(p) \/ LockAttempt(p)
    \/ CheckCache(p) \/ GetSizeStep(p) \/ CreateTemp(p) \/ GetResourceStep(p)
    \/ CopyChunk(p) \/ RenameStep(p) \/ Unlock(p) \/ SaveMetaOpen(p)
    \/ SaveMetaWrite(p) \/ ReturnPath(p)

Next == \E p \in Procs : Proc(p)

Spec == Init /\ [][Next]_vars

\* every call keeps running: the scheduler starves no goroutine or process
FairSpec == Spec /\ \A p \in Procs : WF_vars(Proc(p))

(***************************************************************************)
(* Claims about concurrent resolution, checked under Spec and FairSpec.    *)
(***************************************************************************)
\* call p is inside the function passed to WithLock, or about to unlock
InCS(p) == pc[p] \in {"check", "size", "mktemp", "get", "copy", "rename", "unlock"}

\* the cache path of the server's current revision
ServerPath == CachePathOf(ServerETag)

\* C1 as stated: with no failure anywhere (so every call probed the same
\* revision token) and no cache entry at the start, at most one call issues
\* the GET and at most one publishes to the cache path.
C1_ExactlyOneDownload ==
    ~faulty =>
        /\ Cardinality({p \in Procs : fetched[p]}) <= 1
        /\ Cardinality({p \in Procs : published[p]}) <= 1

\* C2 as stated: with no failure of the network or the file system, every
\* call that has returned has returned the cache path successfully.
C2_AllSucceed ==
    \A p \in Procs :
        (pc[p] = "done" /\ ~faulty) => result[p] = Success(ServerPath)

\* C2, amended: every call eventually returns; with no failure of the network
\* or the file system, a call returns the one cache path successfully unless
\* all 60 of its lock attempts found the lock held, and then it fails with
\* LockFailed.
C2_AllReturn ==
    /\ <>(\A p \in Procs : pc[p] = "done")
    /\ [](\A p \in Procs :
            (pc[p] = "done" /\ ~faulty) =>
                \/ result[p] = Success(ServerPath)
                \/ /\ result[p] = Failure("LockFailed")
                   /\ tries[p] = LockMaxRetries)

\* both calls have returned the same path, one of them after waiting for
\* the lock the other held
C2_Witness ==
    /\ ~faulty
    /\ \A p \in Procs : pc[p] = "done" /\ result[p] = Success(ServerPath)
    /\ \E p \in Procs : waited[p] /\ tries[p] > 1

\* C3: a file at a final cache path always holds a complete response body;
\* a partly written body exists only under a temporary name.
C3_CacheFileComplete ==
    /\ \A c \in CachePaths : FileExists(fs, c) => fs[c] = Body(ContentLen)
    /\ \A x \in Paths :
        (fs[x].kind = "body" /\ fs[x].len < ContentLen) =>
            \E p \in Procs : x = TmpOf(p) /\ x \notin CachePaths

\* a call is part-way through writing its temporary file while the cache
\* path it downloads to already holds a published file
C3_Witness ==
    \E p \in Procs :
        /\ pc[p] = "copy"
        /\ fs[TmpOf(p)] = Body(1)
        /\ FileExists(fs, CachePath(p))

\* C4: at most one call at a time is inside the critical section of a cache
\* path, and it is the call that holds the flock on the lock file.
C4_MutualExclusion ==
    \A p \in Procs :
        InCS(p) =>
            /\ flocks[LockPath(p)] = p
            /\ \A q \in Procs \ {p} : InCS(q) => LockPath(q) # LockPath(p)

\* one call downloads under the lock while another one, after the same
\* cache path, has found the lock held
C4_Witness ==
    \E p, q \in Procs :
        /\ p # q
        /\ pc[p] = "copy"
        /\ pc[q] = "flock" /\ waited[q]
        /\ LockPath(q) = LockPath(p)

\* call p started after every other call had returned
Sequential(p) == pc[p] \notin {"idle", "etag"} /\ before[p] = Procs \ {p}

\* call q returned a path and call p, started later, probed the same token
SecondCall(p, q) ==
    /\ q # p
    /\ Sequential(p)
    /\ result[q].err = "" /\ result[q].path # <<>>
    /\ etag[q] = etag[p]

\* what C5 says of the second call: no GET, no size probe, the same path
NoSecondFetch(p, q) ==
    /\ ~fetched[p]
    /\ ~probed[p]
    /\ (pc[p] = "done" /\ result[p].err = "") => result[p].path = result[q].path

C6_NoFileAfterFailedFetch ==
    \A p \in Procs :
        (pc[p] = "unlock" /\ dlErr[p] # "") => ~FileExists(fs, CachePath(p))

\* C6, amended: a failed fetch leaves the cache path as it was when the call
\* took the lock: it creates no file there and leaves a file that was there
\* untouched.
C6_FailedFetchLeavesCachePath ==
    \A p \in Procs :
        (pc[p] = "unlock" /\ dlErr[p] # "") => fs[CachePath(p)] = entry[p]

\* a GET has failed where an earlier download had published a file
C6_Witness ==
    \E p \in Procs :
        /\ pc[p] = "unlock"
        /\ fetched[p]
        /\ dlErr[p] = "DownloadFailed"
        /\ entry[p] = Body(ContentLen)
        /\ fs[CachePath(p)] = Body(ContentLen)

\* call p has left the function passed to WithLock with no error
PastCheck(p) ==
    /\ pc[p] \in {"unlock", "meta", "metaw", "final", "done"}
    /\ dlErr[p] = ""
    /\ result[p].err = ""

\* the errors handleRemoteURL returns for a lock or a download that failed
LaterErrors ==
    {"open", "flock", "LockFailed", "DownloadFailed", "temp", "rename",
     CopyResult(FALSE).kind}

\* C11 as stated: a call whose revision probe failed does not fail because
\* of it, continues with the empty token and issues a GET.
C11_ProbeFailureRefetches ==
    \A p \in Procs :
        headErr[p] =>
            /\ etag[p] = <<>>
            /\ result[p].err # "" => result[p].err \in LaterErrors
            /\ PastCheck(p) => fetched[p]

\* C11, amended: the same, except that the call issues no GET when the cache
\* already holds an entry stored under the empty token; that entry is
\* returned.
C11_ProbeFailureRefetchesUnlessCached ==
    \A p \in Procs :
        headErr[p] =>
            /\ etag[p] = <<>>
            /\ result[p].err # "" => result[p].err \in LaterErrors
            /\ PastCheck(p) =>
                \/ fetched[p]
                \/ /\ entry[p] = Body(ContentLen)
                   /\ \E q \in Procs \ {p} : etag[q] = <<>> /\ published[q]

\* a call whose probe failed has downloaded and returned the cache path of
\* the empty token
C11_Witness ==
    \E p \in Procs :
        /\ headErr[p]
        /\ fetched[p] /\ published[p]
        /\ pc[p] = "done"
        /\ result[p] = Success(CachePathOf(<<>>))

\* C12: a call whose metadata write failed still returns its cache path
\* successfully, and the published cache file stays in place.
C12_MetaFailureNonFatal ==
    \A p \in Procs :
        (metaErr[p] /\ pc[p] = "done") =>
            /\ result[p] = Success(CachePath(p))
            /\ fs[CachePath(p)] = Body(ContentLen)

\* a call has downloaded, failed to write its metadata record, and returned
C12_Witness ==
    \E p \in Procs :
        /\ metaErr[p] /\ published[p]
        /\ pc[p] = "done"
        /\ result[p] = Success(CachePath(p))
        /\ ~FileExists(fs, MetaPath(p))

\* C27: a call holds a flock only between a successful Lock and the return
\* of WithLock: once WithLock has returned, after success of the function,
\* after its error, or after a failed acquisition, the call holds no lock
\* file, so that the lock is free for another call.
C27_LockReleasedOnEveryExit ==
    \A p \in Procs :
        \A l \in LockPaths :
            flocks[l] = p => (InCS(p) /\ l = LockPath(p))

\* a call took the lock after the download of another call on the same
\* cache path had failed and WithLock of that call had returned the error
C27_Witness ==
    \E p, q \in Procs :
        /\ p # q
        /\ pc[p] = "done" /\ result[p].err = "DownloadFailed"
        /\ LockPath(q) = LockPath(p)
        /\ waited[q]
        /\ flocks[LockPath(q)] = q

\* C28: lock acquisition is a bounded poll.  An attempt that finds the lock
\* held by another call is counted and, below the limit of 60, followed by
\* another attempt; the 60th such attempt makes the call fail with
\* LockFailed, the lock still with its holder and the call never inside the
\* critical section; any other flock error makes the call fail at once.
C28_BoundedLockPoll ==
    [][\A p \in Procs :
          /\ tries'[p] <= LockMaxRetries
          /\ tries'[p] # tries[p] =>
                 /\ pc[p] = "flock"
                 /\ tries'[p] = tries[p] + 1
                 /\ flocks[LockPath(p)] \notin {0, p}
                 /\ flocks' = flocks
                 /\ IF tries'[p] < LockMaxRetries
                      THEN pc'[p] = "flock" /\ result'[p] = result[p]
                      ELSE pc'[p] = "done" /\ result'[p] = Failure("LockFailed")
          /\ (result'[p].err = "LockFailed" /\ result[p].err # "LockFailed") =>
                 /\ tries'[p] = LockMaxRetries /\ tries[p] = LockMaxRetries - 1
                 /\ ~probed[p] /\ ~fetched[p] /\ ~published[p]
          /\ (result'[p].err = "flock" /\ result[p].err # "flock") =>
                 /\ pc[p] = "flock" /\ pc'[p] = "done"
                 /\ tries'[p] = tries[p]
                 /\ flocks' = flocks]_vars

\* a call has given up after 60 attempts while the other call, which held
\* the lock all the time, is still downloading
C28_Witness ==
    \E p, q \in Procs :
        /\ pc[p] = "done" /\ result[p] = Failure("LockFailed")
        /\ tries[p] = LockMaxRetries
        /\ pc[q] = "copy" /\ flocks[LockPath(p)] = q

\* C29: the order of the steps of a remote call.  The revision probe runs
\* before the first lock attempt, with no lock held.  The freshness check,
\* the size probe, the GET and every change of the cache file are made by a
\* call that holds the lock of its cache path before and after the step,
\* with no other call of that cache path inside the critical section.  The
\* metadata record is written by a call that has released the lock and
\* whose locked function returned no error.
C29_StepOrder ==
    [][\A p \in Procs :
          Proc(p) =>
              /\ (pc[p] = "etag" \/ etag'[p] # etag[p] \/ headErr'[p] # headErr[p]) =>
                     /\ \A l \in LockPaths : flocks[l] # p
                     /\ tries[p] = 0
                     /\ pc'[p] = "open"
              /\ (\/ pc[p] = "check"
                  \/ probed'[p] # probed[p]
                  \/ fetched'[p] # fetched[p]
                  \/ published'[p] # published[p]
                  \/ fs'[CachePath(p)] # fs[CachePath(p)]) =>
                     /\ flocks[LockPath(p)] = p
                     /\ flocks'[LockPath(p)] = p
                     /\ \A q \in Procs \ {p} :
                            LockPath(q) = LockPath(p) => ~InCS(q)
              /\ fs'[MetaPath(p)] # fs[MetaPath(p)] =>
                     /\ pc[p] \in {"meta", "metaw"}
                     /\ flocks[LockPath(p)] # p
                     /\ dlErr[p] = ""]_vars

\* a call has probed, downloaded and published under the lock and written
\* its metadata record while another call held the lock of the same path
C29_Witness ==
    \E p, q \in Procs :
        /\ pc[p] = "final"
        /\ probed[p] /\ fetched[p] /\ published[p]
        /\ fs[MetaPath(p)] = MetaJSON(etag[p])
        /\ q # p /\ flocks[LockPath(p)] = q /\ pc[q] = "check"

\* the files call p works on: its cache file, lock file, metadata record
\* and temporary file
Family(p) == {CachePath(p), LockPath(p), MetaPath(p), TmpOf(p)}

\* C24: calls with different cache paths are independent: a step of a call
\* changes no file but its own cache file, lock file, metadata record and
\* temporary file, and a call finds its lock held (and so waits) only while
\* a call with the same cache path is inside the critical section.
C24_DistinctEntriesIndependent ==
    [][\A p \in Procs :
          Proc(p) =>
              /\ \A x \in Paths : fs'[x] # fs[x] => x \in Family(p)
              /\ tries'[p] # tries[p] =>
                     \E r \in Procs \ {p} :
                         /\ flocks[LockPath(p)] = r
                         /\ CachePath(r) = CachePath(p)
                         /\ InCS(r)]_vars

\* two calls with different cache paths are downloading at the same time,
\* and neither has waited for a lock
C24_Witness ==
    \E p, q \in Procs :
        /\ CachePath(p) # CachePath(q)
        /\ pc[p] = "copy" /\ pc[q] = "copy"
        /\ fs[TmpOf(p)] = Body(1) /\ fs[TmpOf(q)] = Body(1)
        /\ ~waited[p] /\ ~waited[q]

(***************************************************************************)
(* CachedPath calls made one after the other, on local paths, remote       *)
(* URLs and archives (SpecResolve).  The file system is a function from    *)
(* the paths that exist to nodes.  File operations do not fail for         *)
(* reasons outside the model (permissions, a full disk); they do fail      *)
(* where a directory is in the place of a file or a file in the place of a *)
(* directory.                                                              *)
(***************************************************************************)
\* a regular file: fmt says how its bytes parse ("zip", "targz", "raw"),
\* entries are the archive entries of a zip or tar.gz file
FileNode(fmt, entries, bytes) ==
    [kind |-> "file", fmt |-> fmt, entries |-> entries, bytes |-> bytes]
RawFile(bytes) == FileNode("raw", <<>>, bytes)
DirNode == [kind |-> "dir", fmt |-> "", entries |-> <<>>, bytes |-> <<>>]

\* one archive entry: its stored name, its type ("reg" a regular file,
\* "dir" a directory, "link" a symbolic link) and its content
Entry(name, type, bytes) == [name |-> name, type |-> type, bytes |-> bytes]

\* os.Stat(path) succeeds
StatOK(d, path) == path \in DOMAIN d

Put(d, path, node) ==
    [x \in DOMAIN d \cup {path} |-> IF x = path THEN node ELSE d[x]]

\* the directories above path
Ancestors(path) ==
    {SubSeq(path, 1, i - 1) : i \in IndicesOf(path, "/")} \ {<<>>}

\* os.MkdirAll(path): path and the missing directories above it are
\* created; fails when one of them exists as a file
MkdirAll(d, path) ==
    LET chain == (Ancestors(path) \cup {path}) \ {<<".">>}
    IN  IF \E x \in chain : StatOK(d, x) /\ d[x].kind = "file"
          THEN [ok |-> FALSE, disk |-> d]
          ELSE [ok |-> TRUE,
                disk |-> [x \in DOMAIN d \cup chain |->
                             IF x \in DOMAIN d THEN d[x] ELSE DirNode]]

\* os.Create / os.OpenFile(O_WRONLY|O_CREATE|O_TRUNC) followed by io.Copy
\* of bytes: fails when path is a directory or its directory is missing
WriteFile(d, path, bytes) ==
    IF \/ StatOK(d, path) /\ d[path].kind = "dir"
       \/ Dir(path) # <<".">> /\
            ~(StatOK(d, Dir(path)) /\ d[Dir(path)].kind = "dir")
      THEN [ok |-> FALSE, disk |-> d]
      ELSE [ok |-> TRUE, disk |-> Put(d, path, RawFile(bytes))]

\* IsArchive(path)
IsArchive(path) ==
    LET ext == ToLower(Ext(path))
    IN  \/ ext = <<".", "zip">>
        \/ ext = <<".", "gz">> /\ HasSuffix(ToLower(path), <<".", "tar", ".", "gz">>)
        \/ ext = <<".", "tgz">>

\* mutant of PathInside: no check of the joined path
PathInside_Unchecked(target, destDir) == TRUE

\* the path-traversal check of extractZipFile and extractTarGz
PathInside(target, destDir) == HasPrefix(target, Clean(destDir) \o <<"/">>)

\* extractZipFile(f, destDir)
ExtractZipFile(d, e, destDir) ==
    LET filePath == Join(destDir, e.name)
    IN  IF ~PathInside(filePath, destDir) THEN [ok |-> FALSE, disk |-> d]
        ELSE IF e.type = "dir" THEN MkdirAll(d, filePath)
        ELSE LET m == MkdirAll(d, Dir(filePath))
             IN  IF ~m.ok THEN m ELSE WriteFile(m.disk, filePath, e.bytes)

\* the body of the loop of extractTarGz for one header
ExtractTarEntry(d, e, destDir) ==
    LET target == Join(destDir, e.name)
    IN  IF ~PathInside(target, destDir) THEN [ok |-> FALSE, disk |-> d]
        ELSE IF e.type = "dir" THEN MkdirAll(d, target)
        ELSE IF e.type = "reg"
          THEN LET m == MkdirAll(d, Dir(target))
               IN  IF ~m.ok THEN m ELSE WriteFile(m.disk, target, e.bytes)
          ELSE [ok |-> TRUE, disk |-> d]

RECURSIVE ExtractEntries(_, _, _, _)
\* the loops of extractZip and extractTarGz: entry after entry, stopping at
\* the first error
ExtractEntries(d, entries, destDir, fmt) ==
    IF entries = <<>> THEN [ok |-> TRUE, disk |-> d]
    ELSE LET r == IF fmt = "zip"
                    THEN ExtractZipFile(d, Head(entries), destDir)
                    ELSE ExtractTarEntry(d, Head(entries), destDir)
         IN  IF ~r.ok THEN r
             ELSE ExtractEntries(r.disk, Tail(entries), destDir, fmt)

\* the archive format ExtractArchive and ExtractSpecificFile choose from the
\* extension of the archive path, "" for `unsupported archive format`
FormatOf(archivePath) ==
    LET ext == ToLower(Ext(archivePath))
    IN  IF ext = <<".", "zip">> THEN "zip"
        ELSE IF ext = <<".", "gz">> \/ ext = <<".", "tgz">> THEN "targz"
        ELSE ""

\* zip.OpenReader, and os.Open with gzip.NewReader, succeed on a file of
\* the format
Opens(d, archivePath, fmt) ==
    /\ StatOK(d, archivePath)
    /\ d[archivePath].kind = "file"
    /\ d[archivePath].fmt = fmt

\* ExtractArchive(archivePath, destDir)
ExtractArchive(d, archivePath, destDir) ==
    LET m == MkdirAll(d, destDir)
    IN  IF ~m.ok THEN m
        ELSE IF FormatOf(archivePath) = "" \/
                ~Opens(d, archivePath, FormatOf(archivePath))
          THEN [ok |-> FALSE, disk |-> m.disk]
          ELSE ExtractEntries(m.disk, d[archivePath].entries, destDir,
                              FormatOf(archivePath))

\* the entries extractSpecificFromZip and extractSpecificFromTarGz accept
\* for internalPath: tar entries only if they are regular files
Matches(e, internalPath, fmt) ==
    /\ e.name = internalPath
    /\ fmt = "targz" => e.type = "reg"

\* mutant of FirstMatch: the last matching entry is taken
FirstMatch_Last(entries, internalPath, fmt) ==
    LET at == {i \in 1 .. Len(entries) : Matches(entries[i], internalPath, fmt)}
    IN  IF at = {} THEN 0 ELSE CHOOSE i \in at : \A j \in at : j <= i

\* the index of the first entry the scan accepts, 0 if there is none
FirstMatch(entries, internalPath, fmt) ==
    LET at == {i \in 1 .. Len(entries) : Matches(entries[i], internalPath, fmt)}
    IN  IF at = {} THEN 0 ELSE CHOOSE i \in at : \A j \in at : i <= j

\* ExtractSpecificFile(archivePath, internalPath, destDir)
ExtractSpecificFile(d, archivePath, internalPath, destDir) ==
    LET m == MkdirAll(d, destDir)
        fmt == FormatOf(archivePath)
        failed(dd, why) == [ok |-> FALSE, disk |-> dd, path |-> <<>>, why |-> why]
    IN  IF ~m.ok THEN failed(d, "mkdir")
        ELSE IF fmt = "" \/ ~Opens(d, archivePath, fmt) THEN failed(m.disk, "open")
        ELSE LET i == FirstMatch(d[archivePath].entries, internalPath, fmt)
                 destPath == Join(destDir, Base(internalPath))
             IN  IF i = 0 THEN failed(m.disk, "file not found in archive")
                 ELSE LET k == MkdirAll(m.disk, Dir(destPath))
                          w == WriteFile(k.disk, destPath,
                                         d[archivePath].entries[i].bytes)
                      IN  IF ~k.ok THEN failed(m.disk, "mkdir")
                          ELSE IF ~w.ok THEN failed(k.disk, "create")
                          ELSE [ok |-> TRUE, disk |-> w.disk,
                                path |-> destPath, why |-> ""]

\* mutant of ParseArchivePath: the string is split at its last "!"
ParseArchivePath_Last(path) ==
    LET i == LastIndexOf(path, "!")
    IN  IF i = 0
          THEN [archivePath |-> path, internalPath |-> <<>>, ok |-> FALSE]
          ELSE [archivePath |-> SubSeq(path, 1, i - 1),
                internalPath |-> SubSeq(path, i + 1, Len(path)),
                ok |-> TRUE]

\* ParseArchivePath: strings.SplitN(path, "!", 2)
ParseArchivePath(path) ==
    LET i == FirstIndexOf(path, "!")
    IN  IF i = 0
          THEN [archivePath |-> path, internalPath |-> <<>>, ok |-> FALSE]
          ELSE [archivePath |-> SubSeq(path, 1, i - 1),
                internalPath |-> SubSeq(path, i + 1, Len(path)),
                ok |-> TRUE]

\* GetScheme: url.Parse(urlStr).Scheme, which url.Parse lower-cases; "" when
\* the string does not start with a scheme
GetScheme(urlStr) ==
    IF urlStr = <<>> THEN ""
    ELSE CASE urlStr[1] \in {"https:", "HTTPS:"} -> "https"
           [] urlStr[1] = "http:" -> "http"
           [] urlStr[1] = "s3:" -> "s3"
           [] OTHER -> ""

\* IsURL: url.Parse gives a scheme and a host
IsURL(path) ==
    /\ GetScheme(path) # ""
    /\ Len(path) >= 4
    /\ path[2] = "/" /\ path[3] = "/" /\ path[4] # "/"

\* mutant of NormalizeScheme: https is looked up under its own name
NormalizeScheme_Verbatim(scheme) == scheme

\* `if scheme == "https" { scheme = "http" }`
NormalizeScheme(scheme) == IF scheme = "https" THEN "http" ELSE scheme

\* the registry after the package's init(): Register(NewHTTPClient())
InitialRegistry == {"http"}

\* the schemes a program may register a client of its own for
CustomSchemes == {"s3"}

\* the caller's options that the branches look at
OptionSets == [extract : BOOLEAN, force : BOOLEAN]

\* what the transport answers in one call: whether the revision probe (and
\* the size probe) succeeds, whether the GET succeeds
NetAnswers == [probe : BOOLEAN, get : BOOLEAN]
NoNet == [probe |-> TRUE, get |-> TRUE]

\* the requests and file operations of one call that the claims speak of
NoIO == [heads |-> 0, sizes |-> 0, gets |-> 0, locked |-> FALSE,
         meta |-> FALSE, client |-> "", whole |-> FALSE]

\* the return values of CachedPath with the file system it leaves; why
\* tells apart the errors that carry no sentinel
Returned(d, path, e, why, io) ==
    [disk |-> d, path |-> path, err |-> e, why |-> why, io |-> io]

\* filepath.Join(opts.CacheDir, "extracted", name)
ExtractDir(name) == Join(Join(CacheDir, <<"extracted">>), name)

\* mutant of ShouldExtract: ForceExtract alone asks for extraction
ShouldExtract_Forced(opts, path) ==
    (opts.extract \/ opts.force) /\ IsArchive(path)

\* `if opts.ExtractArchive && IsArchive(path)`
ShouldExtract(opts, path) == opts.extract /\ IsArchive(path)

\* mutant of HasEntry: an empty entry name counts as no entry
HasEntry_NonEmpty(internalPath, hasInternalPath) ==
    hasInternalPath /\ internalPath # <<>>

\* `if hasInternalPath` in handleLocalPath and handleRemoteURL: the entry
\* name itself is not looked at
HasEntry(internalPath, hasInternalPath) == hasInternalPath

\* mutant of SkipExtraction: an existing directory is reused even when
\* ForceExtract is set
SkipExtraction_Present(opts, d, extractDir) == StatOK(d, extractDir)

\* `if !opts.ForceExtract { if _, err := os.Stat(extractDir); err == nil {
\* return extractDir, nil } }`
SkipExtraction(opts, d, extractDir) == ~opts.force /\ StatOK(d, extractDir)

\* the steps of handleLocalPath and of handleRemoteURL after the file is in
\* place: single-entry extraction, whole-archive extraction, or the path
AfterFetch(d, path, internalPath, hasInternalPath, opts, io) ==
    LET extractDir == ExtractDir(Base(path))
    IN  IF HasEntry(internalPath, hasInternalPath)
          THEN IF ~IsArchive(path)
                 THEN Returned(d, <<>>, "untyped", "file is not an archive", io)
                 ELSE LET x == ExtractSpecificFile(d, path, internalPath,
                                                   extractDir)
                      IN  IF ~x.ok
                            THEN Returned(x.disk, <<>>, "ExtractionFailed",
                                          x.why, io)
                            ELSE Returned(x.disk, x.path, "", "", io)
          ELSE IF ShouldExtract(opts, path)
                 THEN IF SkipExtraction(opts, d, extractDir)
                        THEN Returned(d, extractDir, "", "", io)
                        ELSE LET x == ExtractArchive(d, path, extractDir)
                                 ran == [io EXCEPT !.whole = TRUE]
                             IN  IF ~x.ok
                                   THEN Returned(x.disk, <<>>,
                                                 "ExtractionFailed", "", ran)
                                   ELSE Returned(x.disk, extractDir, "", "", ran)
          ELSE Returned(d, path, "", "", io)

\* mutant of HandleLocalPath: the path is not checked for existence
HandleLocalPath_Unchecked(d, path, internalPath, hasInternalPath, opts) ==
    AfterFetch(d, path, internalPath, hasInternalPath, opts, NoIO)

\* handleLocalPath
HandleLocalPath(d, path, internalPath, hasInternalPath, opts) ==
    IF ~StatOK(d, path)
      THEN Returned(d, <<>>, "FileNotFound", "", NoIO)
      ELSE AfterFetch(d, path, internalPath, hasInternalPath, opts, NoIO)

\* the entries of the archive that local and remote a.zip hold: a directory,
\* a file below it, and a file name stored twice
GoodEntries ==
    <<Entry(<<"weights", "/">>, "dir", <<>>),
      Entry(<<"weights", "/", "model", ".", "bin">>, "reg", <<"m1">>),
      Entry(<<"readme", ".", "txt">>, "reg", <<"r1">>),
      Entry(<<"readme", ".", "txt">>, "reg", <<"r2">>)>>

\* a tar archive in which model.bin is a symbolic link to blob.bin
LinkEntries ==
    <<Entry(<<"model", ".", "bin">>, "link", <<>>),
      Entry(<<"blob", ".", "bin">>, "reg", <<"m1">>)>>

\* an archive with an entry name that climbs out of the extraction directory
EvilEntries ==
    <<Entry(<<"ok", ".", "txt">>, "reg", <<"ok">>),
      Entry(<<"..", "/", "..", "/", "..", "/", "etc", "/", "shadow">>,
            "reg", <<"sh">>)>>

\* an archive with an absolute entry name
AbsEntries ==
    <<Entry(<<"/", "etc", "/", "passwd">>, "reg", <<"pw">>),
      Entry(<<"ok", ".", "txt">>, "reg", <<"ok">>)>>

\* an archive with two files of the same name in two directories
TwinEntries ==
    <<Entry(<<"a", "/", "x", ".", "txt">>, "reg", <<"x1">>),
      Entry(<<"b", "/", "x", ".", "txt">>, "reg", <<"x2">>)>>

\* an archive that starts with an entry for its root directory, as
\* `tar -czf root.tgz .` writes it
RootEntries ==
    <<Entry(<<".", "/">>, "dir", <<>>),
      Entry(<<".", "/", "ok", ".", "txt">>, "reg", <<"ok">>)>>

\* the local files the calls are made on
LocalFiles ==
    [x \in {<<"data">>, <<"other">>} |-> DirNode]
    @@ (<<"other", "/", "a", ".", "zip">> :> FileNode("zip", TwinEntries, <<>>))
    @@ (<<"data", "/", "root", ".", "zip">> :> FileNode("zip", RootEntries, <<>>))
    @@ (<<"data", "/", "root", ".", "tgz">> :>
            FileNode("targz", RootEntries, <<>>))
    @@ (<<"data", "/", "notes", ".", "txt">> :> RawFile(<<"n1">>))
    @@ (<<"data", "/", "a", ".", "zip">> :> FileNode("zip", GoodEntries, <<>>))
    @@ (<<"data", "/", "b", ".", "tar", ".", "gz">> :>
            FileNode("targz", LinkEntries, <<>>))
    @@ (<<"data", "/", "evil", ".", "ZIP">> :> FileNode("zip", EvilEntries, <<>>))
    @@ (<<"data", "/", "evil", ".", "tgz">> :>
            FileNode("targz", EvilEntries, <<>>))
    @@ (<<"data", "/", "abs", ".", "zip">> :> FileNode("zip", AbsEntries, <<>>))
    @@ (<<"data", "/", "abs", ".", "tgz">> :>
            FileNode("targz", AbsEntries, <<>>))

\* the response body the server sends for a URL
ServerBody(url) ==
    LET ext == ToLower(Ext(URLPath(url)))
    IN  IF ext = <<".", "zip">> THEN FileNode("zip", GoodEntries, <<>>)
        ELSE IF ext \in {<<".", "gz">>, <<".", "tgz">>}
          THEN FileNode("targz", GoodEntries, <<>>)
          ELSE RawFile(<<"bin">>)

\* the first arguments of the calls: local paths and URLs, with and without
\* a "!" and an entry name
LocalIds ==
    {<<"data", "/", "notes", ".", "txt">>,
     <<"data", "/", "none", ".", "txt">>,
     <<"data", "/", "none", ".", "zip", "!", "readme", ".", "txt">>,
     <<"data", "/", "notes", ".", "txt", "!", "readme", ".", "txt">>,
     <<"data", "/", "a", ".", "zip">>,
     <<"data", "/", "a", ".", "zip", "!", "weights", "/", "model", ".", "bin">>,
     <<"data", "/", "a", ".", "zip", "!", "readme", ".", "txt">>,
     <<"data", "/", "a", ".", "zip", "!", "missing", ".", "txt">>,
     <<"data", "/", "a", ".", "zip", "!", "weights", "/">>,
     <<"data", "/", "a", ".", "zip", "!">>,
     <<"data", "/", "b", ".", "tar", ".", "gz">>,
     <<"data", "/", "b", ".", "tar", ".", "gz", "!", "model", ".", "bin">>,
     <<"data", "/", "b", ".", "tar", ".", "gz", "!", "blob", ".", "bin">>,
     <<"data", "/", "evil", ".", "ZIP">>,
     <<"data", "/", "evil", ".", "tgz">>,
     <<"data", "/", "abs", ".", "zip">>,
     <<"data", "/", "abs", ".", "tgz">>,
     <<"other", "/", "a", ".", "zip">>,
     <<"other", "/", "a", ".", "zip", "!", "a", "/", "x", ".", "txt">>,
     <<"other", "/", "a", ".", "zip", "!", "b", "/", "x", ".", "txt">>,
     <<"data", "/", "root", ".", "zip">>,
     <<"data", "/", "root", ".", "tgz">>}
RemoteIds ==
    {URL,
     <<"https:", "/", "/", "host", "/", "a", ".", "zip">>,
     <<"https:", "/", "/", "host", "/", "a", ".", "zip", "!", "readme", ".", "txt">>,
     <<"https:", "/", "/", "host", "/", "a", ".", "zip", "!">>,
     <<"https:", "/", "/", "host", "/", "b", ".", "tar", ".", "gz">>,
     <<"https:", "/", "/", "host", "/", "b", ".", "tar", ".", "gz", "!",
       "readme", ".", "txt">>,
     <<"http:", "/", "/", "host", "/", "c", ".", "tgz">>,
     <<"s3:", "/", "/", "bucket", "/", "a", ".", "zip">>}
Identifiers == LocalIds \cup RemoteIds

\* the check inside WithLock of handleRemoteURL
CacheIsFresh(d, cachePath, e) ==
    /\ StatOK(d, cachePath)
    /\ StatOK(d, MetaFilePath(cachePath))
    /\ d[MetaFilePath(cachePath)].fmt = "meta"
    /\ d[MetaFilePath(cachePath)].bytes = e

\* handleRemoteURL run by a single caller: dispatch, revision probe, lock,
\* freshness check, download, unlock, metadata, extraction
HandleRemoteURL(d, url, internalPath, hasInternalPath, opts, reg, net) ==
    LET scheme == NormalizeScheme(GetScheme(url))
        e == IF net.probe THEN ServerETag ELSE <<>>
        cachePath == Join(CacheDir, ResourceToFilename(url, e))
        locked == IF StatOK(d, LockFilePath(cachePath)) THEN d
                  ELSE Put(d, LockFilePath(cachePath), RawFile(<<>>))
        fresh == CacheIsFresh(locked, cachePath, e)
        io == [heads |-> 1, sizes |-> IF fresh THEN 0 ELSE 1,
               gets |-> IF fresh THEN 0 ELSE 1, locked |-> TRUE,
               meta |-> FALSE, client |-> scheme, whole |-> FALSE]
        fetched_ == IF fresh THEN locked
                    ELSE Put(locked, cachePath, ServerBody(url))
        saved == Put(fetched_, MetaFilePath(cachePath),
                     FileNode("meta", <<>>, e))
    IN  IF GetScheme(url) = ""
          THEN Returned(d, <<>>, "InvalidURL", "", NoIO)
        ELSE IF scheme \notin reg
          THEN Returned(d, <<>>, "UnsupportedScheme", "", NoIO)
        ELSE IF ~fresh /\ ~net.get
          THEN Returned(locked, <<>>, "DownloadFailed", "", io)
        ELSE AfterFetch(saved, cachePath, internalPath, hasInternalPath, opts,
                        [io EXCEPT !.meta = TRUE])

\* CachedPath(urlOrFilename, opts...)
CachedPath(d, urlOrFilename, opts, reg, net) ==
    LET m == MkdirAll(d, CacheDir)
        parsed == ParseArchivePath(urlOrFilename)
    IN  IF ~m.ok
          THEN Returned(d, <<>>, "untyped", "failed to create cache directory",
                        NoIO)
        ELSE IF ~IsURL(parsed.archivePath)
          THEN HandleLocalPath(m.disk, parsed.archivePath, parsed.internalPath,
                               parsed.ok, opts)
          ELSE HandleRemoteURL(m.disk, parsed.archivePath, parsed.internalPath,
                               parsed.ok, opts, reg, net)

NoCall ==
    [id |-> <<>>, opts |-> [extract |-> FALSE, force |-> FALSE],
     net |-> NoNet, reg |-> {}, path |-> <<>>, err |-> "", why |-> "",
     io |-> NoIO]

\* the file a call worked on: the local path, or the cache path of the URL
\* and the probed token
FileOf(c) ==
    LET parsed == ParseArchivePath(c.id)
    IN  IF IsURL(parsed.archivePath)
          THEN Join(CacheDir,
                    ResourceToFilename(parsed.archivePath,
                                       IF c.net.probe THEN ServerETag ELSE <<>>))
          ELSE parsed.archivePath

\* what a call that ended in an extraction directory worked on and returned:
\* the archive, the entry named if one was, and the path returned
NoExtraction == [used |-> FALSE, file |-> <<>>, hasEntry |-> FALSE,
                 entry |-> <<>>, path |-> <<>>]
ExtractionOf(c) ==
    LET parsed == ParseArchivePath(c.id)
    IN  IF /\ c.id # <<>>
           /\ c.err = ""
           /\ IsArchive(FileOf(c))
           /\ parsed.ok \/ c.opts.extract
          THEN [used |-> TRUE, file |-> FileOf(c), hasEntry |-> parsed.ok,
                entry |-> parsed.internalPath, path |-> c.path]
          ELSE NoExtraction

InitResolve ==
    /\ CallIdle
    /\ RetryIdle
    /\ MainIdle
    /\ UtilIdle
    /\ ClientIdle
    /\ disk = LocalFiles
    /\ prevDisk = LocalFiles
    /\ prior = NoExtraction
    /\ registry = InitialRegistry
    /\ calls = 0
    /\ last = NoCall

\* one call of CachedPath, from its first statement to its return
Resolve ==
    /\ calls < MaxCalls
    /\ \E id \in Identifiers, opts \in OptionSets, net \in NetAnswers :
        /\ id \in LocalIds => net = NoNet
        /\ \E r \in {CachedPath(disk, id, opts, registry, net)} :
               /\ disk' = r.disk
               /\ last' = [id |-> id, opts |-> opts, net |-> net,
                           reg |-> registry, path |-> r.path, err |-> r.err,
                           why |-> r.why, io |-> r.io]
    /\ prevDisk' = disk
    /\ prior' = ExtractionOf(last)
    /\ calls' = calls + 1
    /\ UNCHANGED <<retryVars, mainVars, utilVars, clientVars, callVars,
                   registry>>

\* schemes.Register(client) with a client for another scheme
Register ==
    /\ \E sch \in CustomSchemes \ registry : registry' = registry \cup {sch}
    /\ UNCHANGED <<retryVars, mainVars, utilVars, clientVars, callVars,
                   disk, calls, last, prevDisk, prior>>

NextResolve == Resolve \/ Register

SpecResolve == InitResolve /\ [][NextResolve]_vars

(***************************************************************************)
(* Claims about local paths, dispatch and archives, checked under          *)
(* SpecResolve.  They speak of the last call made.                         *)
(***************************************************************************)
LastParsed == ParseArchivePath(last.id)
LastIsLocal == calls > 0 /\ ~IsURL(LastParsed.archivePath)
LastIsRemote == calls > 0 /\ IsURL(LastParsed.archivePath)

\* the paths the last call created, and the paths it changed or removed
Created == DOMAIN disk \ DOMAIN prevDisk
Changed == {x \in DOMAIN prevDisk : x \notin DOMAIN disk \/ disk[x] # prevDisk[x]}

\* the last call left the file system as it was, but for the cache root
\* directory that EnsureDir creates
NothingWritten == Created \subseteq {CacheDir} /\ Changed = {}

\* C13: a call on a local path that does not exist fails with FileNotFound,
\* makes no transport request, takes no lock, and creates no cache file,
\* lock file, metadata record or extraction directory.
C13_MissingLocalPathNotFound ==
    (LastIsLocal /\ ~StatOK(prevDisk, LastParsed.archivePath)) =>
        /\ last.err = "FileNotFound"
        /\ last.path = <<>>
        /\ last.io = NoIO
        /\ NothingWritten

\* a missing local archive path with an entry name and extraction requested
\* has been resolved
C13_Witness ==
    /\ LastIsLocal
    /\ ~StatOK(prevDisk, LastParsed.archivePath)
    /\ LastParsed.ok
    /\ last.opts.extract
    /\ last.err = "FileNotFound"

\* C14: a call on an existing local path with no entry name, where
\* extraction does not apply (not requested, or the path is no archive),
\* returns the given path whatever the options, with no lock, no metadata
\* and no transport request.
C14_LocalPathReturnedAsIs ==
    (/\ LastIsLocal
     /\ StatOK(prevDisk, LastParsed.archivePath)
     /\ ~LastParsed.ok
     /\ ~(last.opts.extract /\ IsArchive(last.id))) =>
        /\ last.err = ""
        /\ last.path = last.id
        /\ last.io = NoIO
        /\ NothingWritten

\* a local archive was resolved with ForceExtract set and ExtractArchive
\* not set, and a plain file with both set
C14_Witness ==
    /\ calls = 2
    /\ LastIsLocal
    /\ ~LastParsed.ok
    /\ last.path = last.id
    /\ \/ IsArchive(last.id) /\ last.opts.force /\ ~last.opts.extract
       \/ ~IsArchive(last.id) /\ last.opts.force /\ last.opts.extract

\* C15: a call on a URL uses the client registered under the URL's scheme,
\* https counting as http; with no client registered for the scheme it fails
\* with UnsupportedScheme and has made no request, taken no lock and written
\* nothing to the cache.
C15_TransportDispatch ==
    LastIsRemote =>
        LET scheme == GetScheme(LastParsed.archivePath)
            wanted == IF scheme = "https" THEN "http" ELSE scheme
        IN  IF wanted \in last.reg
              THEN /\ last.io.client = wanted
                   /\ last.io.heads = 1
                   /\ last.err # "UnsupportedScheme"
              ELSE /\ last.err = "UnsupportedScheme"
                   /\ last.path = <<>>
                   /\ last.io = NoIO
                   /\ NothingWritten

\* an s3 URL was refused while no s3 client was registered, after an https
\* URL had been served by the http client
C15_Witness ==
    /\ calls = 2
    /\ LastIsRemote
    /\ GetScheme(LastParsed.archivePath) = "s3"
    /\ last.err = "UnsupportedScheme"
    /\ \E x \in DOMAIN disk : HasPrefix(x, CacheDir \o <<"/">>)

\* the file the last call worked on: the local path, or the cache path of
\* the URL and the probed token
LastCachePath ==
    Join(CacheDir, ResourceToFilename(LastParsed.archivePath,
                                      IF last.net.probe THEN ServerETag ELSE <<>>))
LastFile == IF LastIsLocal THEN LastParsed.archivePath ELSE LastCachePath
LastExtractDir == ExtractDir(Base(LastFile))

\* the last call got as far as having its file in place
LastFileInPlace ==
    /\ calls > 0
    /\ last.err \notin {"FileNotFound", "UnsupportedScheme", "DownloadFailed",
                        "InvalidURL"}
    /\ StatOK(disk, LastFile)

\* C16 as stated: the cache path of a URL whose path ends in .zip, .tar.gz
\* or .tgz is recognized by IsArchive, so that a call with an entry name
\* returns the extracted entry and a call with ExtractArchive returns the
\* extraction directory.
C16_RemoteArchiveStaysArchive ==
    (LastIsRemote /\ LastFileInPlace /\ IsArchive(URLPath(LastParsed.archivePath))) =>
        /\ IsArchive(LastCachePath)
        /\ LastParsed.ok =>
            /\ last.err = ""
            /\ last.path = Join(LastExtractDir, Base(LastParsed.internalPath))
        /\ (~LastParsed.ok /\ last.opts.extract) =>
            /\ last.err = ""
            /\ last.path = LastExtractDir

\* the sentinel errors of the package
TypedErrors ==
    {"InvalidURL", "FileNotFound", "UnsupportedScheme", "DownloadFailed",
     "ExtractionFailed", "LockFailed"}

\* C17 as stated: a call that fails returns one of the sentinel errors, and
\* it has issued at most one GET.
C17_TypedFailures ==
    calls > 0 =>
        /\ last.err # "" => last.err \in TypedErrors
        /\ last.io.gets <= 1

\* the paths below dir
Under(d, dir) == {x \in DOMAIN d : HasPrefix(x, dir \o <<"/">>)}

\* the paths the entries of an archive take below dir, with the directories
\* between
EntryPaths(entries, dir) ==
    LET targets == {Join(dir, entries[i].name) : i \in 1 .. Len(entries)}
    IN  {x \in targets \cup UNION {Ancestors(t) : t \in targets} :
            HasPrefix(x, dir \o <<"/">>)}

\* C18 as stated: after a successful call with ExtractArchive and
\* ForceExtract on an archive, the extraction directory holds the entries of
\* the archive and nothing else.
C18_ForcedExtractionFromScratch ==
    (/\ LastFileInPlace
     /\ ~LastParsed.ok
     /\ last.opts.extract /\ last.opts.force
     /\ last.err = "" /\ last.path = LastExtractDir) =>
        Under(disk, LastExtractDir) \subseteq
            EntryPaths(disk[LastFile].entries, LastExtractDir)

\* the last call ran ExtractArchive on its file
WholeExtractionRan ==
    /\ LastFileInPlace
    /\ ~LastParsed.ok
    /\ last.opts.extract /\ IsArchive(LastFile)
    /\ last.opts.force \/ ~StatOK(prevDisk, LastExtractDir)

\* the last call ran ExtractSpecificFile on its file
SingleExtractionRan ==
    /\ LastFileInPlace
    /\ LastParsed.ok
    /\ IsArchive(LastFile)

LastEntries == disk[LastFile].entries

\* a stored name that is absolute or has a ".." element
UnsafeName(name) == name # <<>> /\ (name[1] = "/" \/ IndicesOf(name, "..") # {})

\* a stored name that, joined to dir, gives a path that is not below dir
ClimbsOut(name, dir) == ~HasPrefix(Join(dir, name), dir \o <<"/">>)

\* the paths a call may write: the extraction directory, what is below it
\* and the directories above it, and for a URL its cache, lock and metadata
\* files
WritesAllowed ==
    {LastExtractDir, CacheDir} \cup Ancestors(LastExtractDir)
        \cup Under(disk, LastExtractDir)
        \cup (IF LastIsRemote
                THEN {LastCachePath, LockFilePath(LastCachePath),
                      MetaFilePath(LastCachePath)}
                ELSE {})

\* no call has written outside the place of its extraction
NoWriteOutside == calls > 0 => (Created \cup Changed) \subseteq WritesAllowed

\* C19 as stated: whole-archive extraction of an archive with an entry whose
\* stored name is absolute or a ..-traversal fails with ExtractionFailed, and
\* nothing is written outside the destination directory.
C19_UnsafeEntryRejected ==
    /\ (WholeExtractionRan /\
        \E i \in 1 .. Len(LastEntries) : UnsafeName(LastEntries[i].name)) =>
            last.err = "ExtractionFailed"
    /\ NoWriteOutside

\* C19, amended: whole-archive extraction fails with ExtractionFailed when an
\* entry's stored name, joined to the destination directory, leaves it; an
\* absolute name does not, it is taken below the destination directory and
\* extracted there.  No extraction writes outside the destination directory.
C19_ClimbingEntryRejected ==
    /\ (WholeExtractionRan /\
        \E i \in 1 .. Len(LastEntries) :
            ClimbsOut(LastEntries[i].name, LastExtractDir)) =>
                last.err = "ExtractionFailed"
    /\ (WholeExtractionRan /\ last.err = "") =>
        \A i \in 1 .. Len(LastEntries) :
            (LastEntries[i].type = "reg" /\ LastEntries[i].name[1] = "/") =>
                StatOK(disk, LastExtractDir \o LastEntries[i].name)
    /\ NoWriteOutside

\* an archive was extracted up to its climbing entry and then refused
C19_Witness ==
    /\ WholeExtractionRan
    /\ \E i \in 1 .. Len(LastEntries) :
        ClimbsOut(LastEntries[i].name, LastExtractDir)
    /\ last.err = "ExtractionFailed"
    /\ StatOK(disk, Join(LastExtractDir, <<"ok", ".", "txt">>))

\* the entries stored under the name asked for, and those of them the scan
\* of the archive accepts
Named == {i \in 1 .. Len(LastEntries) : LastEntries[i].name = LastParsed.internalPath}
Accepted ==
    {i \in Named : FormatOf(LastFile) = "targz" => LastEntries[i].type = "reg"}

\* what C20 says of a call with entry name when the entries in from are
\* the ones that count
SingleEntryResult(from) ==
    IF from # {}
      THEN /\ last.err = ""
           /\ last.path = Join(LastExtractDir, Base(LastParsed.internalPath))
           /\ last.path =
                CacheDir \o <<"/", "extracted", "/">> \o Base(LastFile)
                    \o <<"/">> \o Base(LastParsed.internalPath)
           /\ StatOK(disk, last.path)
           /\ disk[last.path] =
                RawFile(LastEntries[CHOOSE i \in from : \A j \in from : i <= j].bytes)
      ELSE /\ last.err = "ExtractionFailed"
           /\ last.why = "file not found in archive"
           /\ last.path = <<>>

\* C20 as stated: the first entry stored under the name is written to
\* <cache dir>/extracted/<archive name>/<base name of the entry> and that
\* path is returned; with no entry of that name the call fails with
\* ExtractionFailed, file not found in archive.
C20_SingleEntryExtraction == SingleExtractionRan => SingleEntryResult(Named)

\* a directory was at the place the entry is to be written to
DirInTheWay ==
    LET dest == Join(LastExtractDir, Base(LastParsed.internalPath))
    IN  StatOK(prevDisk, dest) /\ prevDisk[dest].kind = "dir"

\* C20, amended: the same, with the entries of a tar.gz archive that are not
\* regular files passed over by the scan; and the call fails with
\* ExtractionFailed when a directory is where the entry is to be written.
C20_SingleRegularEntryExtraction ==
    SingleExtractionRan =>
        IF Accepted # {} /\ DirInTheWay
          THEN last.err = "ExtractionFailed" /\ last.path = <<>>
          ELSE SingleEntryResult(Accepted)

\* the first of two entries stored under the same name has been extracted
C20_Witness ==
    /\ SingleExtractionRan
    /\ Cardinality(Accepted) = 2
    /\ last.err = ""
    /\ disk[last.path] = RawFile(<<"r1">>)

\* what the last call left below the extraction directory is what was there
ExtractDirUntouched ==
    /\ Under(disk, LastExtractDir) = Under(prevDisk, LastExtractDir)
    /\ \A x \in Under(disk, LastExtractDir) : disk[x] = prevDisk[x]

\* C31: with no entry name, ExtractArchive runs exactly when extraction was
\* asked for, the file is an archive, and the extraction directory is absent
\* or ForceExtract is set; with the directory there and ForceExtract not set
\* the directory is returned and nothing is extracted; with extraction not
\* asked for or a file that is no archive the path of the file is returned.
C31_FinalStepSelection ==
    (LastFileInPlace /\ ~LastParsed.ok) =>
        LET wanted == last.opts.extract /\ IsArchive(LastFile)
            present == StatOK(prevDisk, LastExtractDir)
        IN  /\ last.io.whole <=> (wanted /\ (~present \/ last.opts.force))
            /\ last.io.whole => (last.err = "" => last.path = LastExtractDir)
            /\ (wanted /\ present /\ ~last.opts.force) =>
                    /\ last.err = ""
                    /\ last.path = LastExtractDir
                    /\ ExtractDirUntouched
            /\ ~wanted =>
                    /\ last.err = ""
                    /\ last.path = LastFile
                    /\ ExtractDirUntouched

\* an archive whose extraction directory was there has been extracted again
\* because ForceExtract was set
C31_Witness ==
    /\ LastFileInPlace
    /\ ~LastParsed.ok
    /\ StatOK(prevDisk, LastExtractDir)
    /\ last.opts.force
    /\ last.io.whole
    /\ last.err = ""
    /\ last.path = LastExtractDir

\* the extraction directory a successful call used: the directory it
\* returned, or the directory of the entry it returned
LastUsedDir == IF LastParsed.ok THEN Dir(last.path) ELSE last.path
PriorUsedDir == IF prior.hasEntry THEN Dir(prior.path) ELSE prior.path

\* the two calls made both ended in an extraction directory
BothUsedExtractDir ==
    /\ calls = 2
    /\ prior.used
    /\ ExtractionOf(last).used

\* C32 as stated: two calls on different archives (different local paths,
\* or different cache paths) use different extraction directories, and two
\* calls on the same archive use the same one.
C32_OneDirectoryPerArchive ==
    BothUsedExtractDir => (LastFile = prior.file <=> LastUsedDir = PriorUsedDir)

\* the entries of the archive that are regular files or directories
PlainEntries == SelectSeq(LastEntries, LAMBDA e : e.type \in {"reg", "dir"})

\* C33 as stated: when a call with ExtractArchive and no entry name returns
\* the extraction directory, every file and directory of the archive is in
\* that directory, whatever calls were made on the archive before.
C33_WholeResultComplete ==
    (/\ LastFileInPlace
     /\ ~LastParsed.ok
     /\ last.opts.extract /\ IsArchive(LastFile)
     /\ last.err = "" /\ last.path = LastExtractDir) =>
        EntryPaths(PlainEntries, LastExtractDir) \subseteq DOMAIN disk

\* C34 as stated: two calls that name two different entries of the same
\* archive return two different paths, and the file returned by the first
\* call is as the first call left it.
C34_EntriesKeepTheirPaths ==
    (/\ calls = 2
     /\ LastParsed.ok /\ last.err = ""
     /\ prior.used /\ prior.hasEntry
     /\ LastFile = prior.file
     /\ LastParsed.internalPath # prior.entry) =>
        /\ last.path # prior.path
        /\ disk[prior.path] = prevDisk[prior.path]

\* the stored name, joined to dir, gives dir itself or a path below it
StaysInside(name, dir) ==
    Join(dir, name) = dir \/ HasPrefix(Join(dir, name), dir \o <<"/">>)

\* C38 as stated: ExtractArchive into a directory that was not there
\* succeeds when every entry of the archive resolves to the directory itself
\* or to a path below it.
C38_InsideEntriesAccepted ==
    (/\ last.io.whole
     /\ ~StatOK(prevDisk, LastExtractDir)
     /\ \A i \in 1 .. Len(LastEntries) :
            StaysInside(LastEntries[i].name, LastExtractDir)) =>
        last.err = ""

MaxKeys == 2
\* the length of the longest string ParseArchivePath is applied to
MaxIdLen == 4

\* URLs on one host, one the other followed by the characters of an ETag,
\* and one with an extension
KeyURLs ==
    {<<"https:", "/", "/", "host", "/", "f">>,
     <<"https:", "/", "/", "host", "/", "f", "v1">>,
     URL}

\* the ETag values of the calls: "" after a failed probe, or what the server
\* sent
KeyETags == {<<>>, <<"v1">>, <<"v2">>}

KeyPairs == KeyURLs \X KeyETags

\* the characters of the strings given to ParseArchivePath
IdAlphabet == {"a", "!"}

\* every string of at most MaxIdLen characters
IdStrings == UNION {[1 .. n -> IdAlphabet] : n \in 0 .. MaxIdLen}

NoParse == [id |-> <<>>, archivePath |-> <<>>, internalPath |-> <<>>,
            ok |-> FALSE, applied |-> FALSE]

InitUtil ==
    /\ CallIdle
    /\ RetryIdle
    /\ MainIdle
    /\ ResolveIdle
    /\ ClientIdle
    /\ keys = <<>>
    /\ split = NoParse

\* ResourceToFilename(resourceURL, etag) is called
KeyFor ==
    /\ Cardinality(DOMAIN keys) < MaxKeys
    /\ \E pair \in KeyPairs \ DOMAIN keys :
        keys' = [x \in DOMAIN keys \cup {pair} |->
                    IF x = pair THEN ResourceToFilename(pair[1], pair[2])
                    ELSE keys[x]]
    /\ UNCHANGED <<retryVars, mainVars, resolveVars, callVars, clientVars, split>>

\* ParseArchivePath(path) is called
Parse ==
    /\ \E id \in IdStrings :
        LET r == ParseArchivePath(id)
        IN  split' = [id |-> id, archivePath |-> r.archivePath,
                       internalPath |-> r.internalPath, ok |-> r.ok,
                       applied |-> TRUE]
    /\ UNCHANGED <<retryVars, mainVars, resolveVars, callVars, clientVars, keys>>

NextUtil == KeyFor \/ Parse

SpecUtil == InitUtil /\ [][NextUtil]_vars

(***************************************************************************)
(* Claims about the functions of util.go, checked under SpecUtil.          *)
(***************************************************************************)
\* C21 as stated: the key is a function of the pair (identifier, revision
\* token), and two pairs that differ in the identifier or in the revision
\* token have different keys (the digest being injective on its input).
C21_KeyInjective ==
    \A a, b \in DOMAIN keys :
        /\ keys[a] = ResourceToFilename(a[1], a[2])
        /\ a # b => keys[a] # keys[b]

\* the characters of a string
Chars(q) == {q[i] : i \in 1 .. Len(q)}

\* C22: for a string with a "!" ParseArchivePath returns ok, the text before
\* the first "!" and the text after it verbatim, later "!" included; for a
\* string without a "!" it returns the string, an empty entry and not ok.
C22_SplitAtFirstMarker ==
    split.applied =>
        IF "!" \in Chars(split.id)
          THEN /\ split.ok
               /\ "!" \notin Chars(split.archivePath)
               /\ split.id = split.archivePath \o <<"!">> \o split.internalPath
          ELSE /\ ~split.ok
               /\ split.archivePath = split.id
               /\ split.internalPath = <<>>

\* a string with two markers: the second one stays in the entry
C22_Witness ==
    /\ split.applied
    /\ split.id = <<"a", "!", "a", "!">>
    /\ split.ok
    /\ split.archivePath = <<"a">>
    /\ split.internalPath = <<"a", "!">>

(***************************************************************************)
(* The registered HTTP client under concurrent calls (SpecClient).  The    *)
(* registry holds one *HTTPClient for "http"; every handleRemoteURL gets   *)
(* that object from GetClient, writes its options into it, and then sends  *)
(* its requests through it.  The calls resolve different URLs, so no lock  *)
(* orders them.  The fields are written and read without synchronization: *)
(* a request runs with the value some call wrote last.                     *)
(***************************************************************************)
\* the options of a call that the client is configured from: the defaults
\* of defaultOptions, or WithMaxRetries(0), WithRetryDelay(2s),
\* WithTimeout(60s)
DefaultOptions == [maxRetries |-> 3, retryDelay |-> 1, timeout |-> 30]
ClientOptionSets ==
    {DefaultOptions, [maxRetries |-> 0, retryDelay |-> 2, timeout |-> 60]}

\* opts.getHTTPClient(): with no custom client, a new http.Client made for
\* this call with the call's timeout
GetHTTPClient(p, opts) == [call |-> p, timeout |-> opts.timeout]

\* NewHTTPClient(): the client the package's init() registers
NewHTTPClient ==
    [http |-> [call |-> 0, timeout |-> 30], maxRetries |-> 3, retryDelay |-> 1]

\* SetHTTPClient(client) with a non-nil client
SetHTTPClient(c, h) == [c EXCEPT !.http = h]

\* SetRetryConfig(maxRetries, retryDelay)
SetRetryConfig(c, m, d) == [c EXCEPT !.maxRetries = m, !.retryDelay = d]

InitClient ==
    /\ CallIdle
    /\ RetryIdle
    /\ MainIdle
    /\ ResolveIdle
    /\ UtilIdle
    /\ client = NewHTTPClient
    /\ copts \in [Procs -> ClientOptionSets]
    /\ cpc = [p \in Procs |-> "idle"]
    /\ used = [p \in Procs |-> <<>>]

\* handleRemoteURL: schemes.GetClient(scheme) returns the registered client
GetClientStep(p) ==
    /\ cpc[p] = "idle"
    /\ cpc' = [cpc EXCEPT ![p] = "sethttp"]
    /\ UNCHANGED <<retryVars, mainVars, resolveVars, callVars, utilVars, client, copts, used>>

\* httpClient.SetHTTPClient(opts.getHTTPClient())
SetHTTPClientStep(p) ==
    /\ cpc[p] = "sethttp"
    /\ client' = SetHTTPClient(client, GetHTTPClient(p, copts[p]))
    /\ cpc' = [cpc EXCEPT ![p] = "setretry"]
    /\ UNCHANGED <<retryVars, mainVars, resolveVars, callVars, utilVars, copts, used>>

\* httpClient.SetRetryConfig(opts.MaxRetries, opts.RetryDelay)
SetRetryConfigStep(p) ==
    /\ cpc[p] = "setretry"
    /\ client' = SetRetryConfig(client, copts[p].maxRetries, copts[p].retryDelay)
    /\ cpc' = [cpc EXCEPT ![p] = "etag"]
    /\ UNCHANGED <<retryVars, mainVars, resolveVars, callVars, utilVars, copts, used>>

\* one transport request of the call (GetETag, then GetSize and GetResource
\* unless the cache is fresh): doRequestWithRetry runs with the fields of
\* the registered client
Request(p) ==
    /\ cpc[p] \in {"etag", "size", "get"}
    /\ used' = [used EXCEPT ![p] = Append(@, client)]
    /\ \E fresh \in BOOLEAN :
        cpc' = [cpc EXCEPT ![p] =
                   IF cpc[p] = "etag" THEN (IF fresh THEN "done" ELSE "size")
                   ELSE IF cpc[p] = "size" THEN "get"
                   ELSE "done"]
    /\ UNCHANGED <<retryVars, mainVars, resolveVars, callVars, utilVars, client, copts>>

NextClient ==
    \E p \in Procs :
        \/ GetClientStep(p) \/ SetHTTPClientStep(p)
        \/ SetRetryConfigStep(p) \/ Request(p)

SpecClient == InitClient /\ [][NextClient]_vars

\* the client fields the options of call p ask for
OwnConfig(p) ==
    [http |-> GetHTTPClient(p, copts[p]),
     maxRetries |-> copts[p].maxRetries,
     retryDelay |-> copts[p].retryDelay]

\* C25 as stated: every transport request of a call runs with the HTTP
\* client, the retry count and the retry delay of that call's own options,
\* whatever the options of the calls running at the same time.
C25_OwnOptionsUsed ==
    \A p \in Procs :
        \A i \in 1 .. Len(used[p]) : used[p][i] = OwnConfig(p)

(***************************************************************************)
(* One remote call and its environment (SpecCall).  The call is made with  *)
(* any MaxRetries from -1 up, on a cache directory that earlier calls and  *)
(* the user have left in any state, and while another process may hold     *)
(* the lock and never release it.  Every request and every file operation  *)
(* of the call returns.                                                    *)
(***************************************************************************)
\* the tokens a metadata record found in the cache may hold
StoredETags == Etags \cup {<<"v0">>}

\* the revisions the server may be at when it answers the GET: the one the
\* probe reports, or a newer one the resource has moved to since
ServerRevisions == {ServerETag, <<"v2">>}

\* the body the server sends while the resource is at revision rev
Served(rev) == Body(ContentLen) @@ [rev |-> rev]

\* NewMeta(url, cachePath, etag) written by SaveToFile at time t:
\* CreatedAt is time.Now()
NewMeta(e, t) == MetaJSON(e) @@ [created |-> t]

\* the token whose cache path x is
KeyOf(x) == CHOOSE e \in Etags : CachePathTable[e] = x

\* what the call may find at its cache path and at its metadata path: a
\* body or none, and no record, a truncated one, or one written by an
\* earlier call
CacheContents == {Absent, Body(ContentLen)}
MetaContents ==
    {Absent, Truncated} \cup {NewMeta(e, "earlier") : e \in StoredETags}

\* the cache directory with content c at the cache paths and m at their
\* metadata paths; a body found under the key of a token is the one that
\* was served at that revision
CacheState(c, m) ==
    [x \in Paths |->
        IF x \in CachePaths
          THEN IF c = Absent THEN Absent ELSE Served(KeyOf(x))
        ELSE IF x \in {MetaFilePath(y) : y \in CachePaths} THEN m
        ELSE Absent]

\* doRequestWithRetry returned a nil response and a nil error: the caller's
\* `defer resp.Body.Close()` dereferences nil
NilResponse(st) == st.rpc = "returned" /\ st.resp = Nil

\* doRequestWithRetry with the client configured with maxRetries m
DoRequest(outs, m) == RunLoop(LoopStart, outs, 1, m)

InitCall ==
    /\ RetryIdle
    /\ MainIdle
    /\ ResolveIdle
    /\ UtilIdle
    /\ ClientIdle
    /\ callPc = "etag"
    /\ callOpt \in -1 .. OptMaxRetries
    /\ callEtag = <<>>
    /\ callTries = 0
    /\ lockHolder \in {"none", "other"}
    /\ \E c \in CacheContents, m \in MetaContents : callFs = CacheState(c, m)
    /\ decided = "none"
    /\ gets = 0
    /\ callRet = "none"

\* the call ends in a run-time panic
Panic == callPc' = "panic" /\ callRet' = "panic"

\* client.GetETag; ResourceToFilename, cachePath, lockPath
CallGetETag ==
    /\ callPc = "etag"
    /\ \E outs \in NetScripts :
        LET st == DoRequest(outs, callOpt)
        IN  IF NilResponse(st)
              THEN Panic /\ callEtag' = callEtag
              ELSE /\ callEtag' = ProbedETag(st)
                   /\ callPc' = "flock"
                   /\ callRet' = callRet
    /\ UNCHANGED <<retryVars, mainVars, resolveVars, utilVars, clientVars,
                   callOpt, callTries, lockHolder, callFs, decided, gets>>

\* FileLock.Lock: one iteration of the flock loop
CallLockAttempt ==
    /\ callPc = "flock"
    /\ \/ /\ FlockFree([l \in {1} |-> IF lockHolder = "none" THEN 0 ELSE 1], 1)
          /\ lockHolder' = "self"
          /\ callPc' = "check"
          /\ UNCHANGED <<callTries, callRet>>
       \/ /\ ~FlockFree([l \in {1} |-> IF lockHolder = "none" THEN 0 ELSE 1], 1)
          /\ callTries' = callTries + 1
          /\ IF LockExhausted(callTries + 1)
               THEN callPc' = "done" /\ callRet' = "error"
               ELSE UNCHANGED <<callPc, callRet>>
          /\ lockHolder' = lockHolder
       \/ /\ callPc' = "done" /\ callRet' = "error"
          /\ UNCHANGED <<callTries, lockHolder>>
    /\ UNCHANGED <<retryVars, mainVars, resolveVars, utilVars, clientVars,
                   callOpt, callEtag, callFs, decided, gets>>

\* the other process unlocks, if it ever does
OtherUnlocks ==
    /\ lockHolder = "other"
    /\ lockHolder' = "none"
    /\ UNCHANGED <<retryVars, mainVars, resolveVars, utilVars, clientVars,
                   callPc, callOpt, callEtag, callTries, callFs, decided, gets,
                   callRet>>

\* inside WithLock: the cache check
CallCheckCache ==
    /\ callPc = "check"
    /\ IF IsFresh(callFs, CachePathTable[callEtag], callEtag)
         THEN decided' = "fresh" /\ callPc' = "unlock"
         ELSE decided' = "stale" /\ callPc' = "size"
    /\ UNCHANGED <<retryVars, mainVars, resolveVars, utilVars, clientVars,
                   callOpt, callEtag, callTries, lockHolder, callFs, gets,
                   callRet>>

\* downloadFile: client.GetSize, whose error is ignored, and os.CreateTemp,
\* which may fail
CallGetSize ==
    /\ callPc = "size"
    /\ \E outs \in NetScripts, tempOK \in BOOLEAN :
        IF NilResponse(DoRequest(outs, callOpt))
          THEN Panic
          ELSE /\ callPc' = IF tempOK THEN "get" ELSE "unlockErr"
               /\ callRet' = callRet
    /\ UNCHANGED <<retryVars, mainVars, resolveVars, utilVars, clientVars,
                   callOpt, callEtag, callTries, lockHolder, callFs, decided,
                   gets>>

\* downloadFile: client.GetResource into the temporary file and, when it
\* succeeded, os.Rename onto the cache path
CallGetResource ==
    /\ callPc = "get"
    /\ gets' = gets + 1
    /\ \E outs \in NetScripts, copyOK \in BOOLEAN, rev \in ServerRevisions :
        LET r == GetResourceStatus(DoRequest(outs, callOpt))
        IN  IF r.kind = "panic"
              THEN Panic /\ callFs' = callFs
            ELSE IF r.kind = "copy" /\ CopyResult(copyOK).kind = "ok"
              THEN /\ callFs' = [callFs EXCEPT ![CachePathTable[callEtag]] =
                                                    Served(rev)]
                   /\ callPc' = "unlock"
                   /\ callRet' = callRet
              ELSE /\ callPc' = "unlockErr"
                   /\ UNCHANGED <<callFs, callRet>>
    /\ UNCHANGED <<retryVars, mainVars, resolveVars, utilVars, clientVars,
                   callOpt, callEtag, callTries, lockHolder, decided>>

\* WithLock's deferred lock.Unlock(); `if err != nil { return "", err }`
CallUnlock ==
    /\ callPc \in {"unlock", "unlockErr"}
    /\ lockHolder' = "none"
    /\ IF callPc = "unlockErr"
         THEN callPc' = "done" /\ callRet' = "error"
         ELSE callPc' = "meta" /\ callRet' = callRet
    /\ UNCHANGED <<retryVars, mainVars, resolveVars, utilVars, clientVars,
                   callOpt, callEtag, callTries, callFs, decided, gets>>

\* meta.SaveToFile, whose error is only a warning; `return cachePath, nil`
CallSaveMeta ==
    /\ callPc = "meta"
    /\ \E ok \in BOOLEAN :
        callFs' = IF ok
                    THEN [callFs EXCEPT ![MetaPathTable[callEtag]] =
                                            NewMeta(callEtag, "now")]
                    ELSE callFs
    /\ callPc' = "done"
    /\ callRet' = "path"
    /\ UNCHANGED <<retryVars, mainVars, resolveVars, utilVars, clientVars,
                   callOpt, callEtag, callTries, lockHolder, decided, gets>>

\* the steps of the call itself
CallStep ==
    \/ CallGetETag \/ CallLockAttempt \/ CallCheckCache \/ CallGetSize
    \/ CallGetResource \/ CallUnlock \/ CallSaveMeta

NextCall == CallStep \/ OtherUnlocks

SpecCall == InitCall /\ [][NextCall]_vars

\* the call keeps running; nothing makes the other process unlock
FairCall == SpecCall /\ WF_vars(CallStep)

\* C26 as stated: every call terminates: it eventually returns a path or an
\* error, even if the other holder never releases the lock or the server
\* always fails.
C26_CallReturns == <>(callRet \in {"path", "error"})

\* C35 as stated: whenever a cache file is under the key of token t and its
\* metadata record stores t, the file holds what the server served at
\* revision t, also when the resource changed between the probe and the GET.
C35_ContentMatchesRevision ==
    \A t \in Etags \ {<<>>} :
        (/\ callFs[CachePathTable[t]].kind = "body"
         /\ callFs[MetaPathTable[t]].kind = "json"
         /\ callFs[MetaPathTable[t]].etag = t) =>
            callFs[CachePathTable[t]].rev = t

\* C36 as stated: a call that found its cache entry fresh leaves the cache
\* file and the metadata record, creation time included, as they were.
C36_CacheHitChangesNothing ==
    [][decided = "fresh" => callFs' = callFs]_vars

\* C30: inside the lock the fetch is skipped if and only if the cache file
\* exists, the metadata record exists and is readable, and the token it
\* stores is the probed one; otherwise downloadFile is called.  A call that
\* found its entry fresh issues no GET.
C30_FreshIffRecordMatches ==
    [][/\ (callPc = "check" /\ callPc' # "check") =>
              LET c == CachePathTable[callEtag]
                  m == MetaPathTable[callEtag]
                  match == /\ callFs[c] # Absent
                           /\ callFs[m].kind = "json"
                           /\ callFs[m].etag = callEtag
              IN  /\ match => (callPc' = "unlock" /\ decided' = "fresh")
                  /\ ~match => (callPc' = "size" /\ decided' = "stale")
       /\ decided' = "fresh" => gets' = 0
       /\ gets' # gets => decided = "stale"]_vars

\* the cache file was there with a readable record of another token, and
\* the call has fetched again
C30_Witness ==
    /\ decided = "stale"
    /\ callPc = "unlock"
    /\ gets = 1
    /\ callFs[MetaPathTable[callEtag]].kind = "json"
    /\ callFs[MetaPathTable[callEtag]].etag # callEtag
====
